---- MODULE Spec2Model ----
(***************************************************************************)
(* Verification model of the checkout orchestration service:               *)
(*   - the payment attempt engine, attemptPayment                          *)
(*     (src/gateways/stripe/checkout-based/payer.js),                      *)
(*   - the HTTP front-end, ProxyServer (src/proxy-server.js),              *)
(*   - the session info normalisation (src/unnamed/part_002).              *)
(* Every await of the JavaScript code is a suspension point: an action of  *)
(* the model is the code that runs when the awaited upstream answer        *)
(* arrives, up to the next await or return.                                *)
(***************************************************************************)
EXTENDS Integers, Sequences, FiniteSets, TLC

VARIABLES
    route,            \* who called attemptPayment: "none", "direct" or the HTTP handler
    retries,          \* the retries argument of attemptPayment (a number or NaN)
    card,             \* "literal" (an object) or "factory" (a function)
    binOk,            \* whether the factory's BIN has 6 digits (generateCardFromBin does not throw)
    pc,               \* position of attemptPayment: the await it is suspended at
    attempts,         \* let attempts (payer.js:301)
    lastError,        \* let lastError (payer.js:302), as <<kind, iteration>>
    expectedAmount,   \* let expectedAmount (payer.js:278)
    currentCard,      \* const currentCard (payer.js:307)
    paymentMethodId,  \* const paymentMethodId (payer.js:326), 0 when none
    responseData,     \* const responseData (payer.js:337), the working response object
    confirmStatus,    \* confirmResponse.statusCode of the iteration's first confirm call
    result,           \* the value attemptPayment resolves with
    creates,          \* history: number of create-payment-method calls issued by this call
    iterCalls,        \* history: the outbound calls of the current loop iteration
    classified,       \* history: the response the code classified last (payer.js:373-420)
    pending,          \* history: outbound calls of this attempt issued and not yet settled
    httpStatus,       \* status code the HTTP handler answered with, 0 when none
    served,           \* history: the request being served, by what the handlers read of it
    useApiKey,        \* ProxyServer.useApiKey
    apiKey,           \* ProxyServer.apiKey
    info,             \* amount computation: the CheckoutInfo under computation
    amountOut,        \* amount computation: the computed expected amount
    confirmation,     \* classifier: result.confirmation, the response to classify
    resultSuccess,    \* classifier: result.success as the caller passes it
    outcome,          \* classifier: what createDetailedResponse did with it
    bin,              \* generator: the argument of generateCardFromBin (its digits)
    cardNumber,       \* generator: the card number it built
    generated,        \* generator: how far generateCardFromBin got, or what it threw
    currentYear,      \* generator: const currentYear (payer.js:94), 0 before it is read
    currentMonth,     \* generator: const currentMonth (payer.js:95)
    expMonth,         \* generator: the expMonth string
    expYear,          \* generator: the expYear string
    cvc,              \* generator: the cvc string
    cardString,       \* card parser: the argument of parseCardString
    parsedCard,       \* card parser: what parseCardString returned, or that it threw
    checkoutUrl,      \* URL parser: the argument of parseCheckoutUrl
    urlParts,         \* URL parser, history: the fields written in the argument
    parsedUrl,        \* URL parser: what parseCheckoutUrl returned
    submitted,        \* submission: the card handed to createPaymentMethod (payer.js:310)
    rawInvoice,       \* normalizer: raw.invoice, the invoice of the upstream response
    normalized,       \* normalizer: what normalizeCheckoutResponse returned
    activations,      \* concurrent calls: the local variables of each activation of attemptPayment
    heard,            \* concurrent calls, history: what each activation's awaits settled with
    maxWorkers,       \* ProxyServer.maxWorkers
    activeWorkers,    \* ProxyServer.activeWorkers
    reqState,         \* admission: state of every inbound request
    polls,            \* admission: number of handleRequest re-invocations by the polling timer
    stats             \* ProxyServer.stats (totalRequests, activeConnections)

engineVars == <<route, retries, card, binOk, pc, attempts, lastError, expectedAmount,
                currentCard, paymentMethodId, responseData, confirmStatus, result,
                creates, iterCalls, classified, pending>>
httpVars == <<httpStatus, served, useApiKey, apiKey>>
amountVars == <<info, amountOut>>
serverVars == <<maxWorkers, activeWorkers, reqState, polls, stats>>
classifierVars == <<confirmation, resultSuccess, outcome>>
generatorVars ==
    <<bin, cardNumber, generated, currentYear, currentMonth, expMonth, expYear, cvc>>
parserVars == <<cardString, parsedCard, checkoutUrl, urlParts, parsedUrl>>
submitVars == <<submitted>>
normalizerVars == <<rawInvoice, normalized>>
pairVars == <<activations, heard>>
pureVars ==
    <<amountVars, classifierVars, generatorVars, parserVars, submitVars, normalizerVars, pairVars>>
vars == <<engineVars, httpVars, pureVars, serverVars>>

(***************************************************************************)
(* Bounds of the model.                                                    *)
(***************************************************************************)
MaxRetries == 2      \* largest retries value a direct caller passes
MaxItems == 2        \* longest line-item list of a CheckoutInfo
NumRequests == 3     \* inbound HTTP requests of the admission model
MaxPolls == 2        \* polling-timer firings of the admission model
MaxLines == 11       \* longest line list of an upstream invoice

(***************************************************************************)
(* JavaScript values.                                                      *)
(***************************************************************************)
NullNum == -1        \* null / undefined where a number is expected
NaN == -1000         \* the number NaN

\* x || 0 on numbers: NaN and 0 are falsy
OrZero(x) == IF x = NaN \/ x = NullNum THEN 0 ELSE x

\* Strings are sequences of characters; NoParam is null (the parameter is absent).
NoParam == <<"<null>">>
DigitChars == <<"0", "1", "2", "3", "4", "5", "6", "7", "8", "9">>
IsDigit(c) == \E k \in 1..10 : DigitChars[k] = c
DigitValue(c) == (CHOOSE k \in 1..10 : DigitChars[k] = c) - 1

RECURSIVE SkipSpaces(_)
SkipSpaces(s) == IF s # <<>> /\ Head(s) = " " THEN SkipSpaces(Tail(s)) ELSE s

RECURSIVE DecimalPrefix(_, _, _)
\* the value of the longest prefix of s made of digits; NaN when there is none
DecimalPrefix(s, acc, seen) ==
    IF s # <<>> /\ IsDigit(Head(s))
    THEN DecimalPrefix(Tail(s), 10 * acc + DigitValue(Head(s)), TRUE)
    ELSE IF seen THEN acc ELSE NaN

\* parseInt(s) for a string s: leading blanks, an optional sign, decimal digits
ParseInt(s) ==
    LET t == SkipSpaces(s)
        signed == t # <<>> /\ Head(t) \in {"-", "+"}
        v == DecimalPrefix(IF signed THEN Tail(t) ELSE t, 0, FALSE)
    IN  IF v = NaN THEN NaN
        ELSE IF signed /\ Head(t) = "-" THEN 0 - v ELSE v

\* a || b on strings: null and the empty string are falsy
StrOr(a, b) == IF a = NoParam \/ a = <<>> THEN b ELSE a
Min(a, b) == IF a <= b THEN a ELSE b
Max(a, b) == IF a >= b THEN a ELSE b

RECURSIVE StringOf(_)
\* String(n) for an integer n >= 0
StringOf(n) ==
    IF n < 10 THEN <<DigitChars[n + 1]>>
    ELSE StringOf(n \div 10) \o <<DigitChars[(n % 10) + 1]>>
RECURSIVE PadStart(_, _, _)
\* s.padStart(len, c)
PadStart(s, len, c) == IF Len(s) >= len THEN s ELSE PadStart(<<c>> \o s, len, c)
\* s.slice(-n)
SliceLast(s, n) == IF Len(s) <= n THEN s ELSE SubSeq(s, Len(s) - n + 1, Len(s))

(***************************************************************************)
(* Upstream answers of the payment API, as the engine reads them.          *)
(***************************************************************************)
\* responseData.error: absent key, JSON null, the amount-mismatch error, another error
ErrorVals == {"absent", "null", "checkout_amount_mismatch", "card_declined"}
\* responseData.status (the session status): absent key or a status string
StatusVals == {"absent", "complete"}
\* responseData.payment_intent; NoPI is the absent key
NoPI == [status |-> "absent", next_action |-> FALSE, last_payment_error |-> FALSE]
PIVals ==
    { NoPI,
      [status |-> "requires_action", next_action |-> TRUE, last_payment_error |-> FALSE],
      [status |-> "requires_action", next_action |-> FALSE, last_payment_error |-> FALSE],
      [status |-> "requires_payment_method", next_action |-> FALSE, last_payment_error |-> FALSE],
      [status |-> "requires_action", next_action |-> TRUE, last_payment_error |-> TRUE] }
\* parsed JSON body of a confirm answer
ConfirmBodies == [error : ErrorVals, status : StatusVals, pi : PIVals]
NoData == [error |-> "absent", status |-> "absent", pi |-> NoPI]
\* what makeStripeRequest resolves with for a confirm call
ConfirmResponses == [statusCode : {200, 402}, data : ConfirmBodies]
\* what makeStripeRequest resolves with for a create call (data.id, data.error)
CreateResponses == [statusCode : {200, 402}, hasId : BOOLEAN, hasError : BOOLEAN]

\* A call started by the HTTP front-end runs against the answers of a regular
\* upstream: an error comes with a non-200 status, a payment intent is either
\* absent or asks for an action. A direct call runs against every answer.
RegularConfirmResponses ==
    { r \in ConfirmResponses :
        /\ r.data.error # "null"
        /\ (r.statusCode = 200) = (r.data.error = "absent")
        /\ r.data.pi \in {NoPI, [status |-> "requires_action", next_action |-> TRUE,
                                 last_payment_error |-> FALSE]} }
ConfirmResponsesFor(caller) ==
    IF caller = "direct" THEN ConfirmResponses ELSE RegularConfirmResponses
ConfirmBodiesFor(caller) == { r.data : r \in ConfirmResponsesFor(caller) }

\* a JavaScript truthiness test of responseData.error
Truthy(e) == e \notin {"absent", "null"}

\* Object.assign(responseData, retryResponse.data): own keys of b overwrite a
ObjectAssign(a, b) ==
    [error  |-> IF b.error # "absent" THEN b.error ELSE a.error,
     status |-> IF b.status # "absent" THEN b.status ELSE a.status,
     pi     |-> IF b.pi # NoPI THEN b.pi ELSE a.pi]

(***************************************************************************)
(* CheckoutInfo, as normalizeCheckoutResponse builds it: line items with   *)
(* amount, unitAmount, quantity (null when the upstream omits them) and    *)
(* totals.total.                                                           *)
(***************************************************************************)
ItemAmounts == {NullNum, 0, 5, 7}
UnitAmounts == {NullNum, 3}
Quantities == {NullNum, 2}
Totals == {NullNum, 9}
LineItems == [amount : ItemAmounts, unitAmount : UnitAmounts, quantity : Quantities]
ItemLists == UNION { [1..n -> LineItems] : n \in 0..MaxItems }
CheckoutInfos == [lineItems : ItemLists, total : Totals]
NoInfo == [lineItems |-> <<>>, total |-> NullNum]

\* item.amount || (item.unitAmount * (item.quantity || 1))   (null * n is 0)
ItemAmount(item) ==
    IF item.amount # NullNum /\ item.amount # 0
    THEN item.amount
    ELSE OrZero(item.unitAmount)
         * (IF item.quantity = NullNum \/ item.quantity = 0 THEN 1 ELSE item.quantity)

RECURSIVE ReduceItems(_, _)
\* lineItems.reduce((sum, item) => sum + itemAmount, 0)
ReduceItems(items, sum) ==
    IF items = <<>> THEN sum
    ELSE ReduceItems(Tail(items), sum + ItemAmount(Head(items)))

\* the expected amount of a CheckoutInfo (payer.js:278-288 and 345-354)
ComputeExpectedAmount(i) ==
    IF Len(i.lineItems) > 0
    THEN ReduceItems(i.lineItems, 0)
    ELSE OrZero(i.total)

\* the infos the upstream serves while an attempt runs
EngineInfos ==
    { i \in CheckoutInfos :
        /\ Len(i.lineItems) <= 1
        /\ \A k \in 1..Len(i.lineItems) :
              i.lineItems[k].unitAmount = NullNum /\ i.lineItems[k].quantity = NullNum }

(***************************************************************************)
(* attemptPayment (payer.js:264-434).                                      *)
(***************************************************************************)
NoError == <<"null", "">>
NoResult ==
    [success |-> FALSE, status |-> "none", attempts |-> 0, error |-> NoError,
     requires3DS |-> FALSE, paymentIntent |-> "absent"]
NoClassified ==
    [iter |-> 0, data |-> NoData, statusCode |-> 0, corrected |-> FALSE, retry |-> NoData]
\* one outbound call: the endpoint, the payment method id and the amount it carries
Call(op, pm, amount) == [op |-> op, pm |-> pm, amount |-> amount]

\* mutant of LoopCond: one iteration too few
LoopCondStrict(att, r) == r # NaN /\ att < r
\* mutant of LoopCond: one iteration too many
LoopCondOffByOne(att, r) == r # NaN /\ att <= r + 1
\* while (attempts <= retries)                                   (payer.js:304)
LoopCond(att, r) == r # NaN /\ att <= r

\* const isComplete = responseData.status === 'complete'         (payer.js:373)
IsComplete(d) == d.status = "complete"
\* const requires3DS = ...                                       (payer.js:374-376)
Requires3DS(d) ==
    d.pi # NoPI /\ d.pi.status = "requires_action" /\ d.pi.next_action
\* const isDeclined = ...                                        (payer.js:379-380)
IsDeclined(d) == d.pi # NoPI /\ d.pi.status = "requires_payment_method"
\* mutant of HasError: last_payment_error is not looked at
HasErrorTopLevelOnly(d) == Truthy(d.error)
\* const hasError = ...                                          (payer.js:381-382)
HasError(d) == Truthy(d.error) \/ (d.pi # NoPI /\ d.pi.last_payment_error)
\* if (isDeclined || hasError)                                   (payer.js:385)
ReturnsDeclined(d) == IsDeclined(d) \/ HasError(d)
\* mutant of ReturnsApproved: the requires-action branch is forgotten
ReturnsApprovedCompleteOnly(code, d) == code = 200 /\ IsComplete(d)
\* if (confirmResponse.statusCode === 200 && (isComplete || requires3DS))   (payer.js:402)
ReturnsApproved(code, d) == code = 200 /\ (IsComplete(d) \/ Requires3DS(d))
\* paymentIntent: requires3DS ? {id, status, amount, currency} : null       (payer.js:410-415)
PaymentIntentOf(d) == IF Requires3DS(d) THEN "populated" ELSE "null"
\* mutant of ShouldRetryConfirm: the positivity test is dropped
ShouldRetryConfirmAnyAmount(recalculated, expected) == recalculated # expected
\* if (recalculatedAmount !== expectedAmount && recalculatedAmount > 0)     (payer.js:357)
ShouldRetryConfirm(recalculated, expected) ==
    recalculated # expected /\ recalculated > 0
\* the mismatch test without its comparison of the error code
IsAmountMismatchAnyError(d) == Truthy(d.error)
\* if (responseData.error && responseData.error.code === 'checkout_amount_mismatch')  (payer.js:340)
IsAmountMismatch(d) == Truthy(d.error) /\ d.error = "checkout_amount_mismatch"

\* the object returned at payer.js:387-399
DeclinedResult(att, d) ==
    [success |-> FALSE, status |-> "declined", attempts |-> att,
     error |-> <<"decline",
                 IF Truthy(d.error) THEN d.error
                 ELSE IF d.pi.last_payment_error THEN "last_payment_error"
                 ELSE "card_declined">>,
     requires3DS |-> FALSE, paymentIntent |-> "absent"]
\* the object returned at payer.js:403-417
ApprovedResult(att, d) ==
    [success |-> TRUE, status |-> "approved", attempts |-> att, error |-> NoError,
     requires3DS |-> Requires3DS(d), paymentIntent |-> PaymentIntentOf(d)]
\* createDetailedResponse({success: false, attempts, error: lastError})
\* (payer.js:426-433, advanced-flow.js:533-588): status defaults to 'declined'
CreateDetailedResponse(att, le) ==
    [success |-> FALSE, status |-> "declined",
     attempts |-> IF att = 0 THEN 1 ELSE att,
     error |-> le, requires3DS |-> FALSE, paymentIntent |-> "absent"]

\* the next card of the loop: card() when card is a function      (payer.js:307)
NextCard == IF card = "factory" THEN "generated" ELSE "literal"

\* Back at the loop test with attempts = att and lastError = le: either the
\* next iteration starts and issues its create call, or the loop ends and the
\* terminal result is returned (payer.js:304-319, 426-433).
Continue(att, le, cls) ==
    /\ lastError' = le
    /\ classified' = cls
    /\ paymentMethodId' = 0
    /\ responseData' = NoData
    /\ confirmStatus' = 0
    /\ IF LoopCond(att, retries)
       THEN /\ attempts' = att + 1
            /\ result' = NoResult
            /\ IF card = "factory" /\ ~binOk
               THEN \* card() throws outside the try block
                    /\ pc' = "rejected"
                    /\ currentCard' = "none"
                    /\ iterCalls' = <<>>
                    /\ pending' = pending - 1
                    /\ UNCHANGED creates
               ELSE /\ pc' = "create"
                    /\ currentCard' = NextCard
                    /\ iterCalls' = <<Call("create", 0, NullNum)>>
                    /\ creates' = creates + 1
                    /\ pending' = pending - 1 + 1
       ELSE /\ attempts' = att
            /\ pc' = "returned"
            /\ result' = CreateDetailedResponse(att, le)
            /\ pending' = pending - 1
            /\ UNCHANGED <<currentCard, iterCalls, creates>>

\* a return statement inside the loop
Return(res, cls) ==
    /\ pc' = "returned"
    /\ result' = res
    /\ classified' = cls
    /\ responseData' = NoData
    /\ pending' = pending - 1
    /\ UNCHANGED <<attempts, lastError, currentCard, paymentMethodId, confirmStatus,
                   creates, iterCalls>>

\* catch (err) { lastError = { message: err.message } }          (payer.js:421-423)
Catch == Continue(attempts, <<"exception", ToString(attempts)>>, NoClassified)

\* payer.js:373-420 on the working response d of a confirm call answered with code
Classify(code, d, corrected, retryData) ==
    LET cls == [iter |-> attempts, data |-> d, statusCode |-> code,
                corrected |-> corrected, retry |-> retryData]
    IN  IF ReturnsDeclined(d)
        THEN Return(DeclinedResult(attempts, d), cls)
        ELSE IF ReturnsApproved(code, d)
        THEN Return(ApprovedResult(attempts, d), cls)
        ELSE Continue(attempts, <<"confirm_data", ToString(attempts)>>, cls)

\* attemptPayment is entered: the URL is parsed and the info fetch is issued
\* (payer.js:264-274)
Enter(caller, r, c, b, urlOk) ==
    /\ pc = "idle"
    /\ route' = caller
    /\ retries' = r
    /\ card' = c
    /\ binOk' = b
    /\ pc' = IF urlOk THEN "fetchInfo" ELSE "rejected"
    /\ pending' = IF urlOk THEN pending + 1 ELSE pending
    /\ UNCHANGED <<attempts, lastError, expectedAmount, currentCard, paymentMethodId,
                   responseData, confirmStatus, result, creates, iterCalls, classified,
                   httpStatus>>
    /\ UNCHANGED <<pureVars, serverVars>>

\* a caller inside the process (quickPay, the flows, a test) calls attemptPayment
CallAttempt ==
    /\ pc = "idle"
    /\ \E r \in 0..MaxRetries, c \in {"literal", "factory"}, urlOk \in BOOLEAN :
        Enter("direct", r, c, TRUE, urlOk)
    /\ UNCHANGED <<served, useApiKey, apiKey>>

\* const info = await fetchCheckoutInfo(...) resolves            (payer.js:274-302)
InfoResponse ==
    /\ pc = "fetchInfo"
    /\ \E i \in EngineInfos :
        /\ expectedAmount' = ComputeExpectedAmount(i)
        /\ Continue(0, NoError, NoClassified)
    /\ UNCHANGED <<route, retries, card, binOk, httpVars, pureVars, serverVars>>

\* fetchCheckoutInfo rejects: attemptPayment rejects              (payer.js:274)
InfoRejected ==
    /\ pc = "fetchInfo"
    /\ pc' = "rejected"
    /\ UNCHANGED <<route, retries, card, binOk, attempts, lastError, expectedAmount,
                   currentCard, paymentMethodId, responseData, confirmStatus, result,
                   creates, iterCalls, classified, httpVars, pureVars, serverVars>>
    /\ pending' = pending - 1

\* mutant of CreateFailed: the missing id is not looked at
CreateFailedStatusOnly(resp) == resp.statusCode # 200
\* if (pmResponse.statusCode !== 200 || !pmResponse.data.id)     (payer.js:321)
CreateFailed(resp) == resp.statusCode # 200 \/ ~resp.hasId
\* const paymentMethodId = pmResponse.data.id: the id the create call of
\* iteration att returned, 0 when the answer holds none         (payer.js:326)
IdOf(resp, att) == IF resp.hasId THEN att ELSE 0

\* await createPaymentMethod(...) resolves                       (payer.js:310-335)
CreateResponse ==
    /\ pc = "create"
    /\ \E resp \in CreateResponses :
        IF CreateFailed(resp)
        THEN Continue(attempts,
                      <<IF resp.hasError THEN "create_error" ELSE "create_default",
                        ToString(attempts)>>,
                      NoClassified)
        ELSE /\ paymentMethodId' = IdOf(resp, attempts)
             /\ pc' = "confirm"
             /\ iterCalls' = Append(iterCalls,
                                    Call("confirm", IdOf(resp, attempts), expectedAmount))
             /\ classified' = NoClassified
             /\ pending' = pending - 1 + 1
             /\ UNCHANGED <<attempts, lastError, currentCard, responseData, confirmStatus,
                            result, creates>>
    /\ UNCHANGED <<route, retries, card, binOk, expectedAmount, httpVars,
                   pureVars, serverVars>>

\* await confirmPayment(...) resolves                            (payer.js:328-420)
ConfirmResponse ==
    /\ pc = "confirm"
    /\ \E resp \in ConfirmResponsesFor(route) :
        IF IsAmountMismatch(resp.data)
        THEN /\ pc' = "refetch"
             /\ responseData' = resp.data
             /\ confirmStatus' = resp.statusCode
             /\ iterCalls' = Append(iterCalls, Call("info", 0, NullNum))
             /\ pending' = pending - 1 + 1
             /\ UNCHANGED <<attempts, lastError, currentCard, paymentMethodId, result,
                            creates, classified>>
        ELSE Classify(resp.statusCode, resp.data, FALSE, NoData)
    /\ UNCHANGED <<route, retries, card, binOk, expectedAmount, httpVars,
                   pureVars, serverVars>>

\* the corrective await fetchCheckoutInfo(...) resolves          (payer.js:344-371)
RefetchResponse ==
    /\ pc = "refetch"
    /\ \E i \in EngineInfos :
        LET recalculatedAmount == ComputeExpectedAmount(i)
        IN  IF ShouldRetryConfirm(recalculatedAmount, expectedAmount)
            THEN /\ pc' = "reconfirm"
                 /\ iterCalls' = Append(iterCalls,
                                        Call("confirm", paymentMethodId, recalculatedAmount))
                 /\ pending' = pending - 1 + 1
                 /\ UNCHANGED <<attempts, lastError, currentCard, paymentMethodId,
                                responseData, confirmStatus, result, creates, classified>>
            ELSE Classify(confirmStatus, responseData, FALSE, NoData)
    /\ UNCHANGED <<route, retries, card, binOk, expectedAmount, httpVars,
                   pureVars, serverVars>>

\* the corrective await confirmPayment(...) resolves             (payer.js:359-420)
ReconfirmResponse ==
    /\ pc = "reconfirm"
    /\ \E data \in ConfirmBodiesFor(route) :
        Classify(confirmStatus, ObjectAssign(responseData, data), TRUE, data)
    /\ UNCHANGED <<route, retries, card, binOk, expectedAmount, httpVars,
                   pureVars, serverVars>>

\* an awaited call of the iteration rejects (network error, invalid JSON) or
\* resolves with a null body that the next property access throws on
CallFailed ==
    /\ pc \in {"create", "confirm", "refetch", "reconfirm"}
    /\ Catch
    /\ UNCHANGED <<route, retries, card, binOk, expectedAmount, httpVars,
                   pureVars, serverVars>>

\* The 30 s timer of the info fetch fires: request.destroy() and the fetch
\* rejects (part_002:590-598).  The initial fetch is awaited outside the try
\* block, so attemptPayment rejects; the corrective fetch is inside it.
\* makeStripeRequest (payer.js:158-191) sets no timer: a create or confirm call
\* ends only when the upstream answers or the connection fails.
FetchTimeout ==
    /\ pc \in {"fetchInfo", "refetch"}
    /\ IF pc = "fetchInfo"
       THEN /\ pc' = "rejected"
            /\ pending' = pending - 1
            /\ UNCHANGED <<attempts, lastError, currentCard, paymentMethodId, responseData,
                           confirmStatus, result, creates, iterCalls, classified>>
       ELSE Catch
    /\ UNCHANGED <<route, retries, card, binOk, expectedAmount, httpVars,
                   pureVars, serverVars>>

(***************************************************************************)
(* The HTTP front-end (proxy-server.js): the payment routes of             *)
(* handleRequest and their handlers.                                       *)
(***************************************************************************)
RetryClamp == 10
\* values of the retry / retries query parameters
RetryParams ==
    { NoParam, <<>>, <<"0">>, <<"3">>, <<"1", "0">>, <<"1", "1">>, <<"-", "2">>, <<"x">> }
\* values of the X-API-Key header (NoParam: no header)
KeyHeaders == { NoParam, <<>>, <<"k", "1">>, <<"k", "2">> }
\* the configurations of the server: useApiKey and apiKey (proxy-server.js:35-36)
ServerConfigs == { <<FALSE, <<>>>>, <<TRUE, <<"k", "1">>>>, <<TRUE, <<>>>> }
\* An inbound request, by what the routing and the handlers read of it:
\*   path      "health": the pathname is /health; "info": it is an info route;
\*             "payGen" / "payCard": it matches payGenMatch / payCardMatch;
\*             "otherGen" / "otherCc": it matches neither and req.url includes
\*             '/pay/gen' / '/pay/cc' with that segment right after 'pay';
\*             "proxy": req.url starts with /proxy/
\*   key       the X-API-Key header
\*   retry, retriesAlt  the query parameters retry and retries
\*   decodeOk  decodeURIComponent of the URL segment does not throw
\*   urlOk     parseCheckoutUrl finds a session id and a publishable key
\*   binOk     the BIN segment holds at least 6 digits
\*   cardOk    the card segment splits into at least 4 fields
\*   bodyOk    the request body is read and parsed without error
Paths == {"health", "info", "payGen", "payCard", "otherGen", "otherCc", "proxy"}
HttpRequests ==
    [path : Paths, key : KeyHeaders,
     retry : RetryParams, retriesAlt : {NoParam, <<"3">>},
     decodeOk : BOOLEAN, urlOk : BOOLEAN, binOk : BOOLEAN, cardOk : BOOLEAN,
     bodyOk : BOOLEAN]

\* what is kept of the request being served: its X-API-Key header and the
\* part of it that is malformed, in the order the handlers read the parts
NoServed == [key |-> NoParam, path |-> "none", malformed |-> "none"]
Served(req) ==
    [key |-> req.key,
     path |-> IF req.path \in {"payGen", "otherGen"} THEN "gen"
              ELSE IF req.path \in {"payCard", "otherCc"} THEN "cc"
              ELSE req.path,
     malformed |->
        IF req.path = "info"
        THEN IF ~req.bodyOk THEN "body" ELSE IF ~req.urlOk THEN "url" ELSE "none"
        ELSE IF req.path \in {"health", "proxy"} THEN "none"
        ELSE IF ~req.decodeOk THEN "encoding"
        ELSE IF req.path \in {"payCard", "otherCc"} /\ ~req.cardOk THEN "card"
        ELSE IF req.path = "payGen" /\ ~req.binOk THEN "bin"
        ELSE IF ~req.urlOk THEN "url"
        ELSE "none"]

\* mutant of KeyRejected: a wrong key is let through
KeyRejectedMissingOnly(providedKey, key) == providedKey = NoParam \/ providedKey = <<>>
\* if (!providedKey || providedKey !== this.apiKey)            (proxy-server.js:101)
KeyRejected(providedKey, key) ==
    providedKey = NoParam \/ providedKey = <<>> \/ providedKey # key

\* const retryParam = query.get('retry') || query.get('retries') || '0';
\* const retries = Math.max(0, Math.min(parseInt(retryParam) || 0, 10));
\* (proxy-server.js:720-721)
PayGenRetries(req) ==
    Max(0, Min(OrZero(ParseInt(StrOr(StrOr(req.retry, req.retriesAlt), <<"0">>))),
               RetryClamp))
\* retries = retryParam ? parseInt(retryParam) : 0;          (proxy-server.js:484-485)
PaymentRequestRetries(req) ==
    IF req.retry = NoParam \/ req.retry = <<>> THEN 0 ELSE ParseInt(req.retry)

\* the handler answers without calling attemptPayment
Answer(handler, code) ==
    /\ pc = "idle"
    /\ route' = handler
    /\ pc' = "answered"
    /\ httpStatus' = code
    /\ UNCHANGED <<retries, card, binOk, attempts, lastError, expectedAmount, currentCard,
                   paymentMethodId, responseData, confirmStatus, result, creates,
                   iterCalls, classified, pending>>
    /\ UNCHANGED <<pureVars, serverVars>>

\* the handler issues an outbound call of its own and waits for its end
AwaitUpstream(handler, position) ==
    /\ pc = "idle"
    /\ route' = handler
    /\ pc' = position
    /\ UNCHANGED <<retries, card, binOk, attempts, lastError, expectedAmount, currentCard,
                   paymentMethodId, responseData, confirmStatus, result, creates,
                   iterCalls, classified, pending, httpStatus>>
    /\ UNCHANGED <<pureVars, serverVars>>

\* handleStripeCheckoutInfo up to the fetchCheckoutInfo call  (proxy-server.js:316-393)
HandleStripeCheckoutInfo(req) ==
    IF ~req.bodyOk THEN Answer("handleStripeCheckoutInfo", 400)
    ELSE IF ~req.urlOk THEN Answer("handleStripeCheckoutInfo", 400)
    ELSE AwaitUpstream("handleStripeCheckoutInfo", "infoEndpoint")

\* handleStripePayGen up to the attemptPayment call           (proxy-server.js:711-738)
HandleStripePayGen(req) ==
    IF ~req.decodeOk THEN Answer("handleStripePayGen", 400)
    ELSE IF ~req.binOk THEN Answer("handleStripePayGen", 400)
    ELSE Enter("handleStripePayGen", PayGenRetries(req), "factory", TRUE, req.urlOk)

\* handleStripePayCard up to the attemptPayment call          (proxy-server.js:774-801)
HandleStripePayCard(req) ==
    IF ~req.decodeOk THEN Answer("handleStripePayCard", 400)
    ELSE IF ~req.cardOk THEN Answer("handleStripePayCard", 400)
    ELSE Enter("handleStripePayCard", 0, "literal", TRUE, req.urlOk)

\* handlePaymentRequest up to the attemptPayment call         (proxy-server.js:452-498)
HandlePaymentRequest(req) ==
    IF ~req.decodeOk THEN Answer("handlePaymentRequest", 500)
    ELSE IF req.path = "otherCc"
    THEN IF ~req.cardOk
         THEN Answer("handlePaymentRequest", 500)
         ELSE Enter("handlePaymentRequest", 0, "literal", TRUE, req.urlOk)
    ELSE Enter("handlePaymentRequest", PaymentRequestRetries(req), "factory",
               req.binOk, req.urlOk)

\* handleRequest after the admission: the API-key gate and the routing
\* (proxy-server.js:99-197)
HandleRequest ==
    /\ pc = "idle"
    /\ \E req \in HttpRequests :
        /\ served' = Served(req)
        /\ UNCHANGED <<useApiKey, apiKey>>
        /\ IF useApiKey /\ KeyRejected(req.key, apiKey)
           THEN Answer("handleRequest", 401)
           ELSE IF req.path = "health" THEN Answer("health", 200)
           ELSE IF req.path = "payGen" THEN HandleStripePayGen(req)
           ELSE IF req.path = "payCard" THEN HandleStripePayCard(req)
           ELSE IF req.path = "info" THEN HandleStripeCheckoutInfo(req)
           ELSE IF req.path = "proxy" THEN AwaitUpstream("proxyRequest", "proxying")
           ELSE HandlePaymentRequest(req)

\* mutant of ResultStatusCode: every result is answered 200
ResultStatusCodeAlwaysOk(res) == 200
\* result.success ? 200 : 402          (proxy-server.js:516, 740-763, 803-825)
ResultStatusCode(res) == IF res.success THEN 200 ELSE 402

\* the handler's continuation on the attemptPayment promise: 200 on success,
\* 402 otherwise, 500 when it rejected
\* (proxy-server.js:494-527, 739-772, 802-834)
HttpRespond ==
    /\ route \in {"handleStripePayGen", "handleStripePayCard", "handlePaymentRequest"}
    /\ pc \in {"returned", "rejected"}
    /\ httpStatus = 0
    /\ httpStatus' = IF pc = "rejected" THEN 500 ELSE ResultStatusCode(result)
    /\ UNCHANGED <<engineVars, served, useApiKey, apiKey, pureVars, serverVars>>

\* status codes the info endpoint answers with once fetchCheckoutInfo settles:
\* 200, the upstream's error status, 502 or 500            (proxy-server.js:394-431)
InfoEndpointStatuses == {200, 400, 404, 502, 500}
InfoEndpointResponse ==
    /\ pc = "infoEndpoint"
    /\ pc' = "answered"
    /\ httpStatus' \in InfoEndpointStatuses
    /\ UNCHANGED <<route, retries, card, binOk, attempts, lastError, expectedAmount,
                   currentCard, paymentMethodId, responseData, confirmStatus, result,
                   creates, iterCalls, classified, pending>>
    /\ UNCHANGED <<served, useApiKey, apiKey, pureVars, serverVars>>

\* status codes of a proxied request: the upstream's status, 502 on an error,
\* 504 on the 30 s timeout, 500                               (proxy-server.js:199-315)
ProxyStatuses == {200, 404, 500, 502, 504}
ProxyResponse ==
    /\ pc = "proxying"
    /\ pc' = "answered"
    /\ httpStatus' \in ProxyStatuses
    /\ UNCHANGED <<route, retries, card, binOk, attempts, lastError, expectedAmount,
                   currentCard, paymentMethodId, responseData, confirmStatus, result,
                   creates, iterCalls, classified, pending>>
    /\ UNCHANGED <<served, useApiKey, apiKey, pureVars, serverVars>>

(***************************************************************************)
(* The response classifier (advanced-flow.js:327-446, 503-564).  A JSON     *)
(* value that should be an object is "absent" (no such key), "null" (null   *)
(* or another falsy value), "scalar" (a truthy value that is not an object: *)
(* every property read of it is undefined) or "object".  A string field     *)
(* that holds a truthy value of another type is "number".  Each function    *)
(* yields "true", "false" or "throw" (a TypeError).                         *)
(***************************************************************************)
ResponseStatuses == {"absent", "declined", "complete", "open"}
IntentStatuses ==
    {"absent", "requires_payment_method", "requires_action", "processing", "declined"}
\* last_payment_error: absent, an object without fields, one with decline_code and message
LastPaymentErrors == {"absent", "plain", "coded"}
NoIntent == [kind |-> "absent", status |-> "absent", next_action |-> FALSE,
             last_payment_error |-> "absent"]
PaymentIntents ==
    { [NoIntent EXCEPT !.kind = k] : k \in {"absent", "null", "scalar"} }
    \cup [kind : {"object"}, status : IntentStatuses, next_action : BOOLEAN,
          last_payment_error : LastPaymentErrors]
NoErrorField == [kind |-> "absent", type |-> "absent", code |-> "absent",
                 decline_code |-> "absent", message |-> "absent"]
ErrorFields ==
    { [NoErrorField EXCEPT !.kind = k] : k \in {"absent", "null", "scalar"} }
    \cup [kind : {"object"}, type : {"absent", "card_error"},
          code : {"absent", "card_declined", "rate_limit", "number"},
          decline_code : {"absent", "generic_decline"},
          message : {"absent", "decline text", "other text", "number"}]
\* charges.data: absent, [], [null] or [charge]; the fields are those of data[0]
NoCharges == [kind |-> "absent", data |-> "absent", status |-> "absent",
              declined |-> FALSE, paid |-> FALSE]
ChargesFields ==
    { [NoCharges EXCEPT !.kind = k] : k \in {"absent", "null"} }
    \cup { [NoCharges EXCEPT !.kind = "object", !.data = d] : d \in {"absent", "empty", "null item"} }
    \cup [kind : {"object"}, data : {"charge"}, status : {"failed", "succeeded", "pending"},
          declined : BOOLEAN, paid : BOOLEAN]
Confirmations ==
    [status : ResponseStatuses, requires3DS : BOOLEAN, payment_intent : PaymentIntents,
     error : ErrorFields, charges : ChargesFields]
NoConfirmation ==
    [status |-> "absent", requires3DS |-> FALSE, payment_intent |-> NoIntent,
     error |-> NoErrorField, charges |-> NoCharges]
NoOutcome == [branch |-> "none yet", status |-> "none", success |-> FALSE]

\* a JavaScript truthiness test of a value that should be an object
Present(x) == x.kind \in {"scalar", "object"}
\* response.charges && response.charges.data && response.charges.data.length > 0
HasFirstCharge(r) == Present(r.charges) /\ r.charges.data \in {"null item", "charge"}

\* the charges block of detectCardDecline               (advanced-flow.js:380-386)
ChargeDecline(r) ==
    IF ~HasFirstCharge(r) THEN "false"
    ELSE IF r.charges.data = "null item" THEN "throw"
    ELSE IF r.charges.status = "failed" \/ r.charges.declined THEN "true"
    ELSE "false"

\* the error block of detectCardDecline                 (advanced-flow.js:355-377)
\* error.code.includes and error.message.toLowerCase throw on a number
ErrorDecline(r) ==
    LET e == r.error
    IN  IF ~Present(e) THEN ChargeDecline(r)
        ELSE IF e.type = "card_error" THEN "true"
        ELSE IF e.code = "number" THEN "throw"
        ELSE IF e.code = "card_declined" THEN "true"
        ELSE IF e.decline_code # "absent" THEN "true"
        ELSE IF e.message = "number" THEN "throw"
        ELSE IF e.message = "decline text" THEN "true"
        ELSE ChargeDecline(r)

\* detectCardDecline(response)                          (advanced-flow.js:327-389)
DetectCardDecline(r) ==
    IF r.status \in {"declined", "failed"} THEN "true"
    ELSE IF Present(r.payment_intent)
            /\ (\/ r.payment_intent.status = "requires_payment_method"
                \/ r.payment_intent.last_payment_error # "absent"
                \/ r.payment_intent.status = "declined")
    THEN "true"
    ELSE ErrorDecline(r)

\* mutant of DetectCardApproval: the default approval also covers responses
\* that hold an error
DetectCardApprovalIgnoresError(r) ==
    IF r.status \in {"succeeded", "complete"} THEN "true"
    ELSE IF Present(r.payment_intent)
            /\ r.payment_intent.status \in {"succeeded", "processing"} THEN "true"
    ELSE IF HasFirstCharge(r) /\ r.charges.data = "null item" THEN "throw"
    ELSE IF HasFirstCharge(r) /\ r.charges.status = "succeeded" /\ r.charges.paid THEN "true"
    ELSE IF DetectCardDecline(r) = "throw" THEN "throw"
    ELSE IF DetectCardDecline(r) = "false" THEN "true" ELSE "false"
\* detectCardApproval(response)                         (advanced-flow.js:394-425)
DetectCardApproval(r) ==
    IF r.status \in {"succeeded", "complete"} THEN "true"
    ELSE IF Present(r.payment_intent)
            /\ r.payment_intent.status \in {"succeeded", "processing"} THEN "true"
    ELSE IF HasFirstCharge(r) /\ r.charges.data = "null item" THEN "throw"
    ELSE IF HasFirstCharge(r) /\ r.charges.status = "succeeded" /\ r.charges.paid THEN "true"
    ELSE IF Present(r.error) THEN "false"
    ELSE IF DetectCardDecline(r) = "throw" THEN "throw"
    ELSE IF DetectCardDecline(r) = "false" THEN "true" ELSE "false"

\* detectThreeDSRequired(response)                      (advanced-flow.js:430-446)
DetectThreeDSRequired(r) ==
    \/ r.requires3DS
    \/ /\ Present(r.payment_intent)
       /\ r.payment_intent.status = "requires_action" /\ r.payment_intent.next_action

\* extractDeclineCode(response): the code, or "throw"  (advanced-flow.js:503-528)
\* the charges of the domain carry no failure_code
ExtractDeclineCode(r) ==
    IF Present(r.error) /\ r.error.decline_code # "absent" THEN r.error.decline_code
    ELSE IF Present(r.payment_intent) /\ r.payment_intent.last_payment_error = "coded"
    THEN "generic_decline"
    ELSE IF HasFirstCharge(r) /\ r.charges.data = "null item" THEN "throw"
    ELSE "generic_decline"

\* extractDeclineReason(response) throws                (advanced-flow.js:451-498)
\* it returns before the charges are read when the error has a message, a
\* decline code or a code, or when last_payment_error has a message
ExtractDeclineReasonThrows(r) ==
    /\ ~(/\ Present(r.error)
         /\ \/ r.error.message # "absent"
            \/ r.error.decline_code # "absent"
            \/ r.error.code # "absent")
    /\ ~(Present(r.payment_intent) /\ r.payment_intent.last_payment_error = "coded")
    /\ HasFirstCharge(r) /\ r.charges.data = "null item"

Threw == [branch |-> "throws", status |-> "none", success |-> FALSE]

\* mutant of AnalyzeConfirmation: the requires-action branch is tested first
AnalyzeConfirmationActionFirst(res) ==
    LET c == res.confirmation
        isDeclined == DetectCardDecline(c)
        isApproved == DetectCardApproval(c)
        requires3DS == DetectThreeDSRequired(c)
    IN  IF isDeclined = "throw" \/ isApproved = "throw" THEN Threw
        ELSE IF requires3DS
        THEN [branch |-> "requires_action", status |-> "requires_action", success |-> TRUE]
        ELSE IF isDeclined = "true"
        THEN IF ExtractDeclineCode(c) = "throw" \/ ExtractDeclineReasonThrows(c) THEN Threw
             ELSE [branch |-> "declined", status |-> "declined", success |-> FALSE]
        ELSE IF isApproved = "true"
        THEN [branch |-> "approved", status |-> "approved", success |-> TRUE]
        ELSE [branch |-> "none", success |-> res.success,
              status |-> IF res.success THEN "approved" ELSE "declined"]
\* the confirmation analysis of createDetailedResponse(result), for a result
\* that carries a confirmation (advanced-flow.js:540-564): the three detectors run first, in this order,
\* then the first branch that matches overrides the caller's success and status
AnalyzeConfirmation(res) ==
    LET c == res.confirmation
        isDeclined == DetectCardDecline(c)
        isApproved == DetectCardApproval(c)
        requires3DS == DetectThreeDSRequired(c)
    IN  IF isDeclined = "throw" \/ isApproved = "throw" THEN Threw
        ELSE IF isDeclined = "true"
        THEN IF ExtractDeclineCode(c) = "throw" \/ ExtractDeclineReasonThrows(c) THEN Threw
             ELSE [branch |-> "declined", status |-> "declined", success |-> FALSE]
        ELSE IF requires3DS
        THEN [branch |-> "requires_action", status |-> "requires_action", success |-> TRUE]
        ELSE IF isApproved = "true"
        THEN [branch |-> "approved", status |-> "approved", success |-> TRUE]
        ELSE [branch |-> "none", success |-> res.success,
              status |-> IF res.success THEN "approved" ELSE "declined"]

\* the parsed body of a confirm answer as the detectors read it: the engine
\* and the detectors are handed the same object (payer.js:337, 398, 416;
\* advanced-flow.js:542-545); an upstream body holds no requires3DS and no
\* charges key, and its error is an object with a code and a message
AsConfirmation(d) ==
    [status |-> d.status,
     requires3DS |-> FALSE,
     payment_intent |->
        IF d.pi = NoPI THEN NoIntent
        ELSE [kind |-> "object", status |-> d.pi.status, next_action |-> d.pi.next_action,
              last_payment_error |-> IF d.pi.last_payment_error THEN "plain" ELSE "absent"],
     error |->
        IF d.error \in {"absent", "null"} THEN [NoErrorField EXCEPT !.kind = d.error]
        ELSE [kind |-> "object", type |-> "absent", code |-> d.error,
              decline_code |-> "absent", message |-> "other text"],
     charges |-> NoCharges]

\* one call createDetailedResponse({success, confirmation})
ClassifyConfirmation ==
    /\ outcome = NoOutcome
    /\ outcome' = AnalyzeConfirmation([success |-> resultSuccess,
                                          confirmation |-> confirmation])
    /\ UNCHANGED <<confirmation, resultSuccess, amountVars, submitVars, normalizerVars, pairVars,
                   generatorVars, parserVars,
                   engineVars, httpVars, serverVars>>

(***************************************************************************)
(* generateCardFromBin and validateLuhn (payer.js:27-91).  A string is a    *)
(* sequence of characters: the digits 0..9 and Dash, a character that is    *)
(* no digit.  The function runs in steps: one per fill digit, then the      *)
(* check digit, the expiry date and the CVC (payer.js:43-133).              *)
(***************************************************************************)
Dash == 10
Digits == 0..9
\* the values Math.floor(Math.random() * 10) is let to take
FillDigits == {5, 9}
\* the bin arguments: empty, five digits, six digits, ten digits grouped by
\* dashes, the 15- and 14-digit prefixes, nine digits, sixteen digits
Bins ==
    { <<>>,
      <<4, 2, 4, 2, 4>>,
      <<4, 2, 4, 2, 4, 2>>,
      <<4, 2, 4, 2, Dash, 4, 2, 4, 2, Dash, 4, 2>>,
      <<3, 7, 8, 2, 8, 2>>,
      <<3, 4, 0, 0, 0, 0, 1>>,
      <<3, 6, 0, 0, 0, 0>>,
      <<3, 8, 5, 2, 0, 0, 0>>,
      <<5, 1, 0, 5, 1, 0, 5, 1, 0>>,
      <<4, 0, 1, 2, 8, 8, 8, 8, 8, 8, 8, 8, 1, 8, 8, 1>> }

\* bin.replace(/\D/g, '')                                       (payer.js:50)
IsDigitChar(c) == c \in Digits
Clean(b) == SelectSeq(b, IsDigitChar)
\* bin.startsWith(prefix)
StartsWith(b, prefix) ==
    Len(b) >= Len(prefix) /\ SubSeq(b, 1, Len(prefix)) = prefix
\* mutant of TargetLength: the prefixes 34 and 37 are not told apart
TargetLengthNoAmex(b) ==
    IF StartsWith(b, <<3, 6>>) \/ StartsWith(b, <<3, 8>>) THEN 14 ELSE 16
\* targetLength                                              (payer.js:56-66)
TargetLength(b) ==
    IF StartsWith(b, <<3, 4>>) \/ StartsWith(b, <<3, 7>>) THEN 15
    ELSE IF StartsWith(b, <<3, 6>>) \/ StartsWith(b, <<3, 8>>) THEN 14
    ELSE 16

\* digit *= 2; if (digit > 9) digit -= 9
Doubled(digit) == IF digit * 2 > 9 THEN digit * 2 - 9 ELSE digit * 2
\* the loop from the last character to the first, shouldDouble flipping at
\* every character                                   (payer.js:30-38, 77-85)
RECURSIVE LuhnLoop(_, _)
LuhnLoop(number, shouldDouble) ==
    IF number = <<>> THEN 0
    ELSE LET digit == number[Len(number)]
         IN  (IF shouldDouble THEN Doubled(digit) ELSE digit)
             + LuhnLoop(SubSeq(number, 1, Len(number) - 1), ~shouldDouble)
\* validateLuhn(cardNumber)                                  (payer.js:27-40)
ValidateLuhn(number) == LuhnLoop(number, FALSE) % 10 = 0
\* mutant of CheckDigit: the loop starts as that of validateLuhn does
CheckDigitFromUndoubled(number) == (10 - (LuhnLoop(number, FALSE) % 10)) % 10
\* checkDigit, shouldDouble starting true                    (payer.js:74-86)
CheckDigit(number) == (10 - (LuhnLoop(number, TRUE) % 10)) % 10

\* generateCardFromBin(bin) up to the fill loop              (payer.js:43-70)
GenerateCardFromBin ==
    /\ generated = "no"
    /\ IF bin = <<>> THEN generated' = "threw invalid" /\ cardNumber' = cardNumber
       ELSE IF Len(Clean(bin)) < 6 THEN generated' = "threw short" /\ cardNumber' = cardNumber
       ELSE generated' = "filling" /\ cardNumber' = Clean(bin)
    /\ UNCHANGED <<bin, currentYear, currentMonth, expMonth, expYear, cvc>>
    /\ UNCHANGED <<amountVars, classifierVars, submitVars, normalizerVars, pairVars, parserVars, engineVars, httpVars, serverVars>>

\* one turn of while (cardNumber.length < targetLength - 1)  (payer.js:69-72)
AppendRandomDigit ==
    /\ generated = "filling"
    /\ Len(cardNumber) < TargetLength(Clean(bin)) - 1
    /\ \E digit \in FillDigits : cardNumber' = Append(cardNumber, digit)
    /\ UNCHANGED <<bin, generated, currentYear, currentMonth, expMonth, expYear, cvc>>
    /\ UNCHANGED <<amountVars, classifierVars, submitVars, normalizerVars, pairVars, parserVars, engineVars, httpVars, serverVars>>

\* the check digit and the re-validation after the loop      (payer.js:74-91)
AppendCheckDigit ==
    /\ generated = "filling"
    /\ ~(Len(cardNumber) < TargetLength(Clean(bin)) - 1)
    /\ cardNumber' = Append(cardNumber, CheckDigit(cardNumber))
    /\ generated' = IF ValidateLuhn(cardNumber') THEN "numbered" ELSE "threw luhn"
    /\ UNCHANGED <<bin, currentYear, currentMonth, expMonth, expYear, cvc>>
    /\ UNCHANGED <<amountVars, classifierVars, submitVars, normalizerVars, pairVars, parserVars, engineVars, httpVars, serverVars>>

\* the clock readings new Date().getFullYear() and getMonth() + 1
Clocks ==
    { [year |-> 2026, month |-> 11], [year |-> 2095, month |-> 12],
      [year |-> 2099, month |-> 1] }
\* Math.floor(Math.random() * 12) and Math.floor(Math.random() * 5)
MonthDraws == 0..11
YearDraws == 0..4
\* mutant of ExpMonthOf: the month is the draw itself
ExpMonthFromZero(draw) == PadStart(StringOf(draw), 2, "0")
\* String(Math.floor(Math.random() * 12) + 1).padStart(2, '0')   (payer.js:98)
ExpMonthOf(draw) == PadStart(StringOf(draw + 1), 2, "0")
\* the year before it is cut to two characters          (payer.js:101-106)
ExpYearOf(draw, month, year, thisMonth) ==
    LET y == year + draw + 1
    IN  IF y = year /\ ParseInt(month) <= thisMonth THEN y + 1 ELSE y

\* the expiry date and its validation                    (payer.js:93-114)
GenerateExpiry ==
    /\ generated = "numbered"
    /\ \E clock \in Clocks, monthDraw \in MonthDraws, yearDraw \in YearDraws :
          LET month == ExpMonthOf(monthDraw)
              year == SliceLast(StringOf(ExpYearOf(yearDraw, month, clock.year, clock.month)), 2)
              expYearFull == ParseInt(<<"2", "0">> \o year)
          IN  /\ currentYear' = clock.year /\ currentMonth' = clock.month
              /\ expMonth' = month /\ expYear' = year
              /\ generated' =
                    IF \/ expYearFull < clock.year
                       \/ expYearFull = clock.year /\ ParseInt(month) < clock.month
                    THEN "threw expiry" ELSE "dated"
    /\ UNCHANGED <<bin, cardNumber, cvc>>
    /\ UNCHANGED <<amountVars, classifierVars, submitVars, normalizerVars, pairVars, parserVars, engineVars, httpVars, serverVars>>

\* the values Math.floor(Math.random() * 9000) and Math.floor(Math.random() * 900)
\* are let to take
CvcDraws4 == {0, 8999}
CvcDraws3 == {0, 899}
\* cvc                                                   (payer.js:116-124)
CvcOf(targetLength, draw) ==
    IF targetLength = 15 THEN StringOf(draw + 1000) ELSE StringOf(draw + 100)

\* the CVC, its length check and the return              (payer.js:116-132)
GenerateCvc ==
    /\ generated = "dated"
    /\ LET targetLength == TargetLength(Clean(bin))
           expectedCvcLength == IF targetLength = 15 THEN 4 ELSE 3
       IN  \E draw \in (IF targetLength = 15 THEN CvcDraws4 ELSE CvcDraws3) :
              /\ cvc' = CvcOf(targetLength, draw)
              /\ generated' = IF Len(cvc') # expectedCvcLength THEN "threw cvc" ELSE "returned"
    /\ UNCHANGED <<bin, cardNumber, currentYear, currentMonth, expMonth, expYear>>
    /\ UNCHANGED <<amountVars, classifierVars, submitVars, normalizerVars, pairVars, parserVars, engineVars, httpVars, serverVars>>

(***************************************************************************)
(* parseCardString (payer.js:135-156).  The argument is a string of the     *)
(* fields of CardFields joined by '|'.                                      *)
(***************************************************************************)
NumberFields ==
    { <<"4", "2", "4", "2", "4", "2", "4", "2", "4", "2", "4", "2", "4", "2", "4", "2">>,
      <<"4", "2", "4", "2", " ", "4", "2", "4", "2", " ", "4", "2", "4", "2", " ", "4", "2", "4", "2">>,
      <<"4", "2", "4", "2", "4", "2", "4", "2", "4", "2", "4", "2", "4", "2", "4", "1">>,
      <<>> }
MonthFields ==
    { <<"1", "2">>, <<"5">>, <<"0", "5">>, <<" ", "7">>, <<"0">>, <<"0", "0">>, <<"1", "3">>, <<"a", "b">>, <<>> }
YearFields ==
    { <<"2", "5">>, <<"2", "0", "2", "5">>, <<"3", "0">>, <<"2", "0", "3", "0">>, <<"5">>, <<"1", "2", "5">>, <<>> }
CvcFields ==
    { <<"1", "2", "3">>, <<"1", "2", "3", "4">>, <<" ", "1", "2", "3", " ">> }
\* fields.join('|')
RECURSIVE Join(_)
Join(fields) ==
    IF Len(fields) = 1 THEN fields[1]
    ELSE fields[1] \o <<"|">> \o Join(Tail(fields))
\* the arguments: one to five fields
CardFieldLists ==
    { <<n, m, y, c>> : n \in NumberFields, m \in MonthFields, y \in YearFields, c \in CvcFields }
    \cup { <<n>> : n \in NumberFields }
    \cup { <<n, m>> : n \in NumberFields, m \in MonthFields }
    \cup { <<n, m, y>> : n \in NumberFields, m \in {<<"1", "2">>, <<>>}, y \in YearFields }
    \cup { <<n, m, <<"2", "5">>, c, x>> :
             n \in NumberFields, m \in MonthFields, c \in CvcFields,
             x \in {<<>>, <<"U", "S">>} }
CardStrings == { Join(fields) : fields \in CardFieldLists }

NoCard == [ok |-> "none", cardNumber |-> <<>>, expMonth |-> <<>>, expYear |-> <<>>, cvc |-> <<>>]
\* throw new Error('Card format must be: number|month|year|cvv')
ThrewCardFormat == [NoCard EXCEPT !.ok = "threw"]

\* s.split('|')
RECURSIVE Split(_, _)
Split(s, current) ==
    IF s = <<>> THEN <<current>>
    ELSE IF Head(s) = "|" THEN <<current>> \o Split(Tail(s), <<>>)
    ELSE Split(Tail(s), Append(current, Head(s)))
\* s.trim()
RECURSIVE TrimEnd(_)
TrimEnd(s) == IF s # <<>> /\ s[Len(s)] = " " THEN TrimEnd(SubSeq(s, 1, Len(s) - 1)) ELSE s
Trim(s) == TrimEnd(SkipSpaces(s))
\* s.replace(/\s/g, '')
IsNoSpace(c) == c # " "
RemoveSpaces(s) == SelectSeq(s, IsNoSpace)
\* String(v) for the value of a parseInt
StringOfNumber(v) ==
    IF v = NaN THEN <<"N", "a", "N">>
    ELSE IF v < 0 THEN <<"-">> \o StringOf(0 - v) ELSE StringOf(v)
\* expMonth                                               (payer.js:145-148)
NormalMonth(month) ==
    LET m == IF month # <<>> /\ Head(month) = "0" THEN Tail(month) ELSE month
    IN  PadStart(StringOfNumber(ParseInt(m)), 2, "0")
\* expYear                                                (payer.js:150-153)
NormalYear(year) ==
    SliceLast(IF Len(year) = 2 THEN <<"2", "0">> \o year ELSE year, 2)

\* mutant of ParseCardString: the year is kept as given
ParseCardStringKeepsYear(str) ==
    LET split == Split(str, <<>>)
        parts == [i \in 1..Len(split) |-> Trim(split[i])]
    IN  IF Len(parts) < 4 THEN ThrewCardFormat
        ELSE [ok |-> "parsed", cardNumber |-> RemoveSpaces(parts[1]),
              expMonth |-> NormalMonth(parts[2]), expYear |-> parts[3],
              cvc |-> parts[4]]
\* parseCardString(cardString)                            (payer.js:135-156)
ParseCardString(str) ==
    LET split == Split(str, <<>>)
        parts == [i \in 1..Len(split) |-> Trim(split[i])]
    IN  IF Len(parts) < 4 THEN ThrewCardFormat
        ELSE [ok |-> "parsed", cardNumber |-> RemoveSpaces(parts[1]),
              expMonth |-> NormalMonth(parts[2]), expYear |-> NormalYear(parts[3]),
              cvc |-> parts[4]]

\* one call parseCardString(cardString)
ParseCard ==
    /\ parsedCard = NoCard
    /\ parsedCard' = ParseCardString(cardString)
    /\ UNCHANGED <<cardString, checkoutUrl, urlParts, parsedUrl>>
    /\ UNCHANGED <<amountVars, classifierVars, submitVars, normalizerVars, pairVars, generatorVars, engineVars, httpVars, serverVars>>

\* no string has been given to parseCardString
InitCardParserIdle == cardString = <<>> /\ parsedCard = NoCard

(***************************************************************************)
(* parseCheckoutUrl (part_002:410-457).  Here a string is the sequence of   *)
(* its character codes and a Buffer the sequence of its bytes.              *)
(***************************************************************************)
\* null where a string is expected
NullStr == <<-1>>
\* the URIError of decodeURIComponent, as the last element of what was decoded
BadEscape == -2
XOR_KEY == 5

IsAlnum(c) == c \in 48..57 \/ c \in 65..90 \/ c \in 97..122
\* the value of a hexadecimal digit, -1 for another character
HexValue(c) ==
    IF c \in 48..57 THEN c - 48
    ELSE IF c \in 65..70 THEN c - 55
    ELSE IF c \in 97..102 THEN c - 87
    ELSE -1
\* the byte of the escape %XX written at position i of str, -1 when there is none
EscapeAt(str, i) ==
    IF /\ i >= 1 /\ i + 2 <= Len(str) /\ str[i] = 37
       /\ HexValue(str[i + 1]) >= 0 /\ HexValue(str[i + 2]) >= 0
    THEN 16 * HexValue(str[i + 1]) + HexValue(str[i + 2])
    ELSE -1
\* The '%' at position i of str cannot be decoded: it is not followed by two
\* hexadecimal digits, or its byte is neither below 0x80, nor the first byte
\* 0xC2..0xDF of a two-byte UTF-8 sequence followed by an escaped byte
\* 0x80..0xBF, nor the second byte of such a sequence.
Undecodable(str, i) ==
    LET b == EscapeAt(str, i)
    IN  ~ \/ b \in 0..127
          \/ b \in 194..223 /\ EscapeAt(str, i + 3) \in 128..191
          \/ b \in 128..191 /\ EscapeAt(str, i - 3) \in 194..223
\* decodeURIComponent(str): every escape is replaced by the character it
\* encodes; an escape that cannot be decoded is a URIError, written as the
\* sequence <<BadEscape>>
DecodeURIComponent(str) ==
    IF \E i \in 1..Len(str) : str[i] = 37 /\ Undecodable(str, i) THEN <<BadEscape>>
    ELSE LET Skip == -3
             at == [i \in 1..Len(str) |->
                     IF str[i] = 37
                     THEN LET b == EscapeAt(str, i)
                          IN  IF b < 128 THEN b
                              ELSE IF b >= 194
                              THEN (b - 192) * 64 + (EscapeAt(str, i + 3) - 128)
                              ELSE Skip
                     ELSE IF (i > 1 /\ str[i - 1] = 37) \/ (i > 2 /\ str[i - 2] = 37)
                     THEN Skip
                     ELSE str[i]]
             Kept(c) == c # Skip
         IN  SelectSeq(at, Kept)
DecodeThrew(decoded) == decoded = <<BadEscape>>

\* the base64 alphabet, and the value of a character in it or in the URL-safe
\* alphabet; -1 for a character of neither
Base64Chars ==
    << 65, 66, 67, 68, 69, 70, 71, 72, 73, 74, 75, 76, 77, 78, 79, 80, 81, 82, 83, 84, 85, 86, 87, 88, 89, 90,
      97, 98, 99, 100, 101, 102, 103, 104, 105, 106, 107, 108, 109, 110, 111, 112, 113, 114, 115, 116, 117, 118, 119, 120, 121, 122,
      48, 49, 50, 51, 52, 53, 54, 55, 56, 57, 43, 47>>
Base64Value(c) ==
    IF c = 45 THEN 62
    ELSE IF c = 95 THEN 63
    ELSE IF \E k \in 1..64 : Base64Chars[k] = c
    THEN (CHOOSE k \in 1..64 : Base64Chars[k] = c) - 1
    ELSE -1
\* the 6-bit values Buffer.from(str, 'base64') reads: those of the characters
\* before the first '=', without the characters that are in no alphabet
Base64Input(str) ==
    LET end == IF \E i \in 1..Len(str) : str[i] = 61
               THEN (CHOOSE i \in 1..Len(str) :
                        str[i] = 61 /\ \A j \in 1..(i - 1) : str[j] # 61) - 1
               ELSE Len(str)
        InAlphabet(c) == Base64Value(c) >= 0
        read == SelectSeq(SubSeq(str, 1, end), InAlphabet)
    IN  [i \in 1..Len(read) |-> Base64Value(read[i])]
\* the bytes of a sequence of 6-bit values: 4 values give 3 bytes, a rest of
\* 3 gives 2, a rest of 2 gives 1, a rest of 1 gives none
SextetsToBytes(v) ==
    [k \in 1..((Len(v) * 3) \div 4) |->
        LET base == 4 * ((k - 1) \div 3)
        IN  IF (k - 1) % 3 = 0 THEN v[base + 1] * 4 + (v[base + 2] \div 16)
            ELSE IF (k - 1) % 3 = 1 THEN (v[base + 2] % 16) * 16 + (v[base + 3] \div 4)
            ELSE (v[base + 3] % 4) * 64 + v[base + 4]]
\* Buffer.from(str, 'base64')
BufferFromBase64(str) == SextetsToBytes(Base64Input(str))

\* byte ^ XOR_KEY: the bits of value 1 and 4 are flipped
XorKey(byte) ==
    LET bit0 == byte % 2
        bit2 == (byte \div 4) % 2
    IN  byte + (IF bit0 = 1 THEN -1 ELSE 1) + (IF bit2 = 1 THEN -4 ELSE 4)

\* str.indexOf(c) counted from 1; 0 when c is not in str
IndexOf(str, c) ==
    IF \E i \in 1..Len(str) : str[i] = c
    THEN CHOOSE i \in 1..Len(str) : str[i] = c /\ \A j \in 1..(i - 1) : str[j] # c
    ELSE 0
\* the prefix is written in str from position i on
PrefixAt(str, i, prefix) ==
    /\ i + Len(prefix) - 1 <= Len(str)
    /\ SubSeq(str, i, i + Len(prefix) - 1) = prefix
\* [^\s"']
IsSiteChar(c) == c \notin {9, 10, 11, 12, 13, 32, 34, 39}
\* the character classes [A-Za-z0-9] and [^\s"']
InClass(class, c) == IF class = "alnum" THEN IsAlnum(c) ELSE IsSiteChar(c)
\* the end of the longest run of characters of the class that starts at position i
RECURSIVE RunEnd(_, _, _)
RunEnd(str, i, class) ==
    IF i <= Len(str) /\ InClass(class, str[i]) THEN RunEnd(str, i + 1, class) ELSE i - 1
\* str.match(/(?:p1|p2)[class]+/): the leftmost place where one of the
\* prefixes is followed by at least one allowed character, with all the
\* allowed characters that follow; NullStr when there is none
Match(str, prefixes, class) ==
    LET starts == { i \in 1..Len(str) :
                      \E q \in prefixes :
                          /\ PrefixAt(str, i, q)
                          /\ RunEnd(str, i + Len(q), class) >= i + Len(q) }
    IN  IF starts = {} THEN NullStr
        ELSE LET i == CHOOSE k \in starts : \A j \in starts : k <= j
                 q == CHOOSE x \in prefixes : PrefixAt(str, i, x)
             IN  SubSeq(str, i, RunEnd(str, i + Len(q), class))
\* cs_live_ cs_test_ pk_live_ pk_test_ http:// https://
SessionPrefixes == { <<99, 115, 95, 108, 105, 118, 101, 95>>, <<99, 115, 95, 116, 101, 115, 116, 95>> }
KeyPrefixes == { <<112, 107, 95, 108, 105, 118, 101, 95>>, <<112, 107, 95, 116, 101, 115, 116, 95>> }
SitePrefixes == { <<104, 116, 116, 112, 58, 47, 47>>, <<104, 116, 116, 112, 115, 58, 47, 47>> }
NoParsedUrl == [done |-> "no", sessionId |-> NullStr, publicKey |-> NullStr, site |-> NullStr]
\* return { sessionId: null, publicKey: null, site: null }
AllNull == [NoParsedUrl EXCEPT !.done = "returned"]
\* an exception leaves parseCheckoutUrl
UrlThrew == [NoParsedUrl EXCEPT !.done = "threw"]

\* mutant of FragmentFields: the bytes are read without the XOR
FragmentFieldsNoXor(fragment) ==
    LET decodedFragment == DecodeURIComponent(fragment)
        decodedPayload == BufferFromBase64(decodedFragment)
    IN  IF DecodeThrew(decodedFragment) THEN [publicKey |-> NullStr, site |-> NullStr]
        ELSE [publicKey |-> Match(decodedPayload, KeyPrefixes, "alnum"),
              site |-> Match(decodedPayload, SitePrefixes, "site")]
\* the fragment part of parseCheckoutUrl                 (part_002:426-454)
\* an exception in the try block leaves publicKey and site as they are
FragmentFields(fragment) ==
    LET decodedFragment == DecodeURIComponent(fragment)
        base64Buffer == BufferFromBase64(decodedFragment)
        decodedPayload == [i \in 1..Len(base64Buffer) |-> XorKey(base64Buffer[i])]
    IN  IF DecodeThrew(decodedFragment) THEN [publicKey |-> NullStr, site |-> NullStr]
        ELSE [publicKey |-> Match(decodedPayload, KeyPrefixes, "alnum"),
              site |-> Match(decodedPayload, SitePrefixes, "site")]

\* mutant of ParseCheckoutUrl: the first decodeURIComponent is not in a try block
ParseCheckoutUrlNoTry(url) ==
    IF url.kind # "string" \/ url.text = <<>> THEN AllNull
    ELSE IF DecodeThrew(DecodeURIComponent(url.text)) THEN UrlThrew
    ELSE LET text == DecodeURIComponent(url.text)
             fragmentIndex == IndexOf(text, 35)
             fields == IF fragmentIndex = 0 THEN [publicKey |-> NullStr, site |-> NullStr]
                       ELSE FragmentFields(SubSeq(text, fragmentIndex + 1, Len(text)))
         IN  [done |-> "returned", sessionId |-> Match(text, SessionPrefixes, "alnum"),
              publicKey |-> fields.publicKey, site |-> fields.site]
\* parseCheckoutUrl(checkoutUrl)                          (part_002:410-457)
ParseCheckoutUrl(url) ==
    IF url.kind # "string" \/ url.text = <<>> THEN AllNull
    ELSE LET decoded == DecodeURIComponent(url.text)
             text == IF DecodeThrew(decoded) THEN url.text ELSE decoded
             fragmentIndex == IndexOf(text, 35)
             fields == IF fragmentIndex = 0 THEN [publicKey |-> NullStr, site |-> NullStr]
                       ELSE FragmentFields(SubSeq(text, fragmentIndex + 1, Len(text)))
         IN  [done |-> "returned", sessionId |-> Match(text, SessionPrefixes, "alnum"),
              publicKey |-> fields.publicKey, site |-> fields.site]

\* The URLs given to parseCheckoutUrl.  A checkout URL carries its payload in
\* the fragment: the payload bytes XOR-ed with XOR_KEY, in base64, percent-encoded.
\* Buffer.toString('base64')
Base64Encode(bytes) ==
    LET n == Len(bytes)
        byte(i) == IF i <= n THEN bytes[i] ELSE 0
    IN  [j \in 1..(4 * ((n + 2) \div 3)) |->
            LET base == 3 * ((j - 1) \div 4)
            IN  IF (j - 1) % 4 = 0 THEN Base64Chars[(byte(base + 1) \div 4) + 1]
                ELSE IF (j - 1) % 4 = 1
                THEN Base64Chars[(byte(base + 1) % 4) * 16 + (byte(base + 2) \div 16) + 1]
                ELSE IF base + 2 > n THEN 61
                ELSE IF (j - 1) % 4 = 2
                THEN Base64Chars[(byte(base + 2) % 16) * 4 + (byte(base + 3) \div 64) + 1]
                ELSE IF base + 3 > n THEN 61
                ELSE Base64Chars[(byte(base + 3) % 64) + 1]]
HexChars == <<48, 49, 50, 51, 52, 53, 54, 55, 56, 57, 65, 66, 67, 68, 69, 70>>
\* encodeURIComponent(str) for characters below 0x80: letters, digits and
\* - _ . ! ~ * ' ( ) are kept, every other character becomes %XX
EncodeURIComponent(str) ==
    LET Skip == -3
        Unreserved(c) == IsAlnum(c) \/ c \in {45, 95, 46, 33, 126, 42, 39, 40, 41}
        at == [k \in 1..(3 * Len(str)) |->
                 LET c == str[((k - 1) \div 3) + 1]
                 IN  IF Unreserved(c) THEN (IF (k - 1) % 3 = 0 THEN c ELSE Skip)
                     ELSE IF (k - 1) % 3 = 0 THEN 37
                     ELSE IF (k - 1) % 3 = 1 THEN HexChars[(c \div 16) + 1]
                     ELSE HexChars[(c % 16) + 1]]
        Kept(c) == c # Skip
    IN  SelectSeq(at, Kept)
\* the fragment that carries a payload
FragmentOf(payload) ==
    EncodeURIComponent(Base64Encode([i \in 1..Len(payload) |-> XorKey(payload[i])]))

\* cs_test_a1  cs_live_b2Zz
SessionIds == { <<99, 115, 95, 116, 101, 115, 116, 95, 97, 49>>, <<99, 115, 95, 108, 105, 118, 101, 95, 98, 50, 90, 122>> }
\* the characters a 5 Q z, in keys of one to three characters after the prefix
KeyChars == {97, 53, 81, 122}
KeyBodies ==
    { <<a>> : a \in KeyChars }
    \cup { <<a, b>> : a \in KeyChars, b \in KeyChars }
    \cup { <<a, b, c>> : a \in KeyChars, b \in KeyChars, c \in KeyChars }
PublicKeys == { q \o body : q \in KeyPrefixes, body \in KeyBodies }
\* https://shop.example/pay
SiteUrl == <<104, 116, 116, 112, 115, 58, 47, 47, 115, 104, 111, 112, 46, 101, 120, 97, 109, 112, 108, 101, 47, 112, 97, 121>>
\* the payload: the key alone, {"apiKey":"<key>"}, or
\* {"apiKey":"<key>","site":"<site>"}
PayloadOf(shape, key) ==
    IF shape = "key" THEN key
    ELSE IF shape = "json" THEN <<123, 34, 97, 112, 105, 75, 101, 121, 34, 58, 34>> \o key \o <<34, 125>>
    ELSE <<123, 34, 97, 112, 105, 75, 101, 121, 34, 58, 34>> \o key \o <<34, 44, 34, 115, 105, 116, 101, 34, 58, 34>> \o SiteUrl \o <<34, 125>>
\* https://checkout.stripe.com/c/pay/
PayPath == <<104, 116, 116, 112, 115, 58, 47, 47, 99, 104, 101, 99, 107, 111, 117, 116, 46, 115, 116, 114, 105, 112, 101, 46, 99, 111, 109, 47, 99, 47, 112, 97, 121, 47>>
\* a well-formed URL, with the fields it was built from
BuiltUrls ==
    { [url |-> [kind |-> "string",
                text |-> PayPath \o sid \o <<35>> \o FragmentOf(PayloadOf(shape, key))],
       parts |-> [built |-> TRUE, sessionId |-> sid, publicKey |-> key,
                  site |-> IF shape = "site" THEN SiteUrl ELSE NullStr]] :
      sid \in SessionIds, key \in PublicKeys, shape \in {"key", "json", "site"} }
\* other arguments, with the fields that are written in them
Written(text, sid, key) ==
    [url |-> [kind |-> "string", text |-> text],
     parts |-> [built |-> FALSE, sessionId |-> sid, publicKey |-> key, site |-> NullStr]]
OtherUrls ==
    { \* null, a number, the empty string
      [url |-> [kind |-> "null", text |-> <<>>],
       parts |-> [built |-> FALSE, sessionId |-> NullStr, publicKey |-> NullStr, site |-> NullStr]],
      [url |-> [kind |-> "number", text |-> <<>>],
       parts |-> [built |-> FALSE, sessionId |-> NullStr, publicKey |-> NullStr, site |-> NullStr]],
      Written(<<>>, NullStr, NullStr),
      \* "not a url"
      Written(<<110, 111, 116, 32, 97, 32, 117, 114, 108>>, NullStr, NullStr),
      \* no fragment
      Written(PayPath \o <<99, 115, 95, 116, 101, 115, 116, 95, 97, 49>>, <<99, 115, 95, 116, 101, 115, 116, 95, 97, 49>>, NullStr),
      \* an empty fragment
      Written(PayPath \o <<99, 115, 95, 116, 101, 115, 116, 95, 97, 49>> \o <<35>>, <<99, 115, 95, 116, 101, 115, 116, 95, 97, 49>>, NullStr),
      \* the fragment #%zz, no escape
      Written(PayPath \o <<99, 115, 95, 116, 101, 115, 116, 95, 97, 49>> \o <<35, 37, 122, 122>>, <<99, 115, 95, 116, 101, 115, 116, 95, 97, 49>>, NullStr),
      \* the fragment #%E9, a lone byte
      Written(PayPath \o <<99, 115, 95, 116, 101, 115, 116, 95, 97, 49>> \o <<35, 37, 69, 57>>, <<99, 115, 95, 116, 101, 115, 116, 95, 97, 49>>, NullStr),
      \* a good fragment followed by a single %
      Written(PayPath \o <<99, 115, 95, 116, 101, 115, 116, 95, 97, 49>> \o <<35>> \o FragmentOf(<<112, 107, 95, 116, 101, 115, 116, 95, 97, 53>>) \o <<37>>, <<99, 115, 95, 116, 101, 115, 116, 95, 97, 49>>, NullStr),
      \* the fragment #!!!!, no base64
      Written(PayPath \o <<99, 115, 95, 116, 101, 115, 116, 95, 97, 49>> \o <<35, 33, 33, 33, 33>>, <<99, 115, 95, 116, 101, 115, 116, 95, 97, 49>>, NullStr),
      \* a fragment whose payload "hello" holds no key
      Written(PayPath \o <<99, 115, 95, 116, 101, 115, 116, 95, 97, 49>> \o <<35>> \o FragmentOf(<<104, 101, 108, 108, 111>>), <<99, 115, 95, 116, 101, 115, 116, 95, 97, 49>>, NullStr),
      \* a % without digits in the path, a good fragment
      Written(PayPath \o <<99, 115, 95, 116, 101, 115, 116, 95, 97, 49>> \o <<63, 120, 61, 37>> \o <<35>> \o FragmentOf(<<112, 107, 95, 116, 101, 115, 116, 95, 97, 53>>), <<99, 115, 95, 116, 101, 115, 116, 95, 97, 49>>, <<112, 107, 95, 116, 101, 115, 116, 95, 97, 53>>),
      \* the path written with %2F for /
      Written(EncodeURIComponent(PayPath \o <<99, 115, 95, 116, 101, 115, 116, 95, 97, 49>>), <<99, 115, 95, 116, 101, 115, 116, 95, 97, 49>>, NullStr) }
UrlInputs == BuiltUrls \cup OtherUrls
NoUrlParts == [built |-> FALSE, sessionId |-> NullStr, publicKey |-> NullStr, site |-> NullStr]

\* one call parseCheckoutUrl(checkoutUrl)
ParseUrl ==
    /\ parsedUrl = NoParsedUrl
    /\ parsedUrl' = ParseCheckoutUrl(checkoutUrl)
    /\ UNCHANGED <<checkoutUrl, urlParts, cardString, parsedCard>>
    /\ UNCHANGED <<amountVars, classifierVars, submitVars, normalizerVars, pairVars, generatorVars, engineVars, httpVars, serverVars>>

\* no argument has been given to parseCheckoutUrl
InitUrlParserIdle ==
    /\ checkoutUrl = [kind |-> "null", text |-> <<>>]
    /\ urlParts = NoUrlParts /\ parsedUrl = NoParsedUrl
InitParserIdle == InitCardParserIdle /\ InitUrlParserIdle

(***************************************************************************)
(* The card attemptPayment hands to createPaymentMethod: the object its    *)
(* card argument is, or the one its card argument returns when it is a     *)
(* function (payer.js:307-319).  The callers pass what parseCardString     *)
(* returned, or a function that calls generateCardFromBin                 *)
(* (proxy-server.js:481, 486, 736, 786).                                   *)
(***************************************************************************)
NoInstrument ==
    [source |-> "none", cardNumber |-> <<>>, expMonth |-> <<>>, expYear |-> <<>>,
     cvc |-> <<>>, year |-> 0, month |-> 0]
\* const currentCard = (typeof card === 'function') ? card() : card, spread into
\* the argument of createPaymentMethod                      (payer.js:307-319)
SubmitCurrentCard ==
    /\ submitted = NoInstrument
    /\ \/ /\ card = "factory" /\ generated = "returned"
          /\ submitted' =
                [source |-> "generated",
                 cardNumber |-> [k \in 1..Len(cardNumber) |-> DigitChars[cardNumber[k] + 1]],
                 expMonth |-> expMonth, expYear |-> expYear, cvc |-> cvc,
                 year |-> currentYear, month |-> currentMonth]
       \/ /\ card = "literal" /\ parsedCard.ok = "parsed"
          /\ \E clock \in Clocks :
                submitted' =
                   [source |-> "literal",
                    cardNumber |-> parsedCard.cardNumber,
                    expMonth |-> parsedCard.expMonth, expYear |-> parsedCard.expYear,
                    cvc |-> parsedCard.cvc,
                    year |-> clock.year, month |-> clock.month]
    /\ UNCHANGED <<amountVars, classifierVars, generatorVars, parserVars, normalizerVars, pairVars>>
    /\ UNCHANGED <<engineVars, httpVars, serverVars>>
\* nothing has been handed to createPaymentMethod
InitSubmitIdle == submitted = NoInstrument

(***************************************************************************)
(* normalizeCheckoutResponse (part_002:658-707), by the line items and the *)
(* totals it returns.  The other fields of the result (merchant, urls,     *)
(* subscription, images) are computed from other fields of the response    *)
(* and are left out.                                                       *)
(***************************************************************************)
MAX_LINE_ITEMS == 10
\* the invoices of the upstream response: none, one without a lines array,
\* or one with up to MaxLines lines; total is invoice.total
LineAmounts == {2, 5}
RawLines == [amount : LineAmounts, quantity : {1}]
RawLineLists == UNION { [1..n -> RawLines] : n \in 0..MaxLines }
\* the sum of the amounts of the lines of an upstream invoice
RECURSIVE SumOfLines(_)
SumOfLines(lines) ==
    IF lines = <<>> THEN 0 ELSE Head(lines).amount + SumOfLines(Tail(lines))
\* what the upstream adds to the sum of the lines in invoice.total
TotalExtras == {0, 1}
NoInvoice == [kind |-> "absent", lines |-> <<>>, total |-> NullNum]
RawInvoices ==
    {NoInvoice, [kind |-> "no lines", lines |-> <<>>, total |-> 7]}
    \cup { [kind |-> "invoice", lines |-> lines, total |-> SumOfLines(lines) + extra] :
              lines \in RawLineLists, extra \in TotalExtras }

\* invoice.lines.data.slice(0, MAX_LINE_ITEMS).map(...)     (part_002:615-656)
NormalizeLineItems(invoice) ==
    IF invoice.kind # "invoice" THEN <<>>
    ELSE LET kept == SubSeq(invoice.lines, 1, Min(MAX_LINE_ITEMS, Len(invoice.lines)))
         IN  [k \in 1..Len(kept) |->
                 [amount |-> kept[k].amount,          \* item.amount ?? null
                  quantity |-> kept[k].quantity,      \* item.quantity ?? null
                  unitAmount |-> NullNum]]            \* item.price?.unit_amount ?? null
\* total: raw.invoice?.total ?? null                       (part_002:662-666)
TotalOf(invoice) == IF invoice.kind = "absent" THEN NullNum ELSE invoice.total
NoNormalized == [done |-> FALSE, lineItems |-> <<>>, totals |-> [total |-> NullNum]]
NormalizeCheckoutResponse(invoice) ==
    [done |-> TRUE,
     lineItems |-> NormalizeLineItems(invoice),
     totals |-> [total |-> TotalOf(invoice)]]

\* one call normalizeCheckoutResponse(raw, ...), as fetchCheckoutInfo makes it
\* with the parsed upstream response                            (part_002:726)
NormalizeResponse ==
    /\ ~normalized.done
    /\ normalized' = NormalizeCheckoutResponse(rawInvoice)
    /\ UNCHANGED <<rawInvoice, amountVars, classifierVars, generatorVars, parserVars, submitVars, pairVars>>
    /\ UNCHANGED <<engineVars, httpVars, serverVars>>
\* no response has been given to the normalizer
InitNormalizerIdle == rawInvoice = NoInvoice /\ normalized = NoNormalized

(***************************************************************************)
(* The expected amount as a function of the fetched CheckoutInfo           *)
(* (payer.js:276-288).                                                     *)
(***************************************************************************)
ComputeAmount ==
    /\ amountOut = NullNum
    /\ amountOut' = ComputeExpectedAmount(info)
    /\ UNCHANGED <<info, classifierVars, submitVars, normalizerVars, pairVars, generatorVars, parserVars, engineVars, httpVars, serverVars>>

(***************************************************************************)
(* Admission control of handleRequest (proxy-server.js:75-97).  A request  *)
(* is "new" before its first handleRequest call, "waiting" while the       *)
(* 100 ms timer re-invokes handleRequest, "admitted" once counted in       *)
(* activeWorkers, "finished" after the response's 'finish' event and       *)
(* "closed" after its 'close' event.  The runtime emits 'close' after      *)
(* 'finish' for a completed response, and 'close' alone when the           *)
(* connection ends before the response does.                               *)
(***************************************************************************)
DefaultMaxWorkers == 3
WorkerLimits == {1, 2, DefaultMaxWorkers}
Requests == 1..NumRequests

\* if (this.activeWorkers >= this.maxWorkers)                 (proxy-server.js:79)
QueueFull == activeWorkers >= maxWorkers

\* one invocation of handleRequest for request r, up to the admission
\* (proxy-server.js:75-97)
AdmitOrWait(r) ==
    /\ stats' = [totalRequests |-> stats.totalRequests + 1,
                 activeConnections |-> stats.activeConnections + 1]
    /\ IF QueueFull
       THEN /\ reqState' = [reqState EXCEPT ![r] = "waiting"]
            /\ UNCHANGED activeWorkers
       ELSE /\ reqState' = [reqState EXCEPT ![r] = "admitted"]
            /\ activeWorkers' = activeWorkers + 1

\* the HTTP server calls handleRequest for a new request      (proxy-server.js:52-54)
RequestArrives ==
    \E r \in Requests :
        /\ reqState[r] = "new"
        /\ AdmitOrWait(r)
        /\ UNCHANGED <<maxWorkers, polls, engineVars, httpVars, pureVars>>

\* the polling timer of request r calls handleRequest again  (proxy-server.js:83-85)
Poll(r) ==
    /\ reqState[r] = "waiting"
    /\ polls < MaxPolls \/ ~QueueFull
    /\ polls' = IF QueueFull THEN polls + 1 ELSE polls
    /\ AdmitOrWait(r)
    /\ UNCHANGED <<maxWorkers, engineVars, httpVars, pureVars>>

PollTimerFires == \E r \in Requests : Poll(r)

\* mutant of Cleanup: the worker slot is not given back
CleanupKeepsWorker ==
    /\ activeWorkers' = activeWorkers
    /\ stats' = [stats EXCEPT !.activeConnections = @ - 1]
\* const cleanup = () => { this.activeWorkers--; this.stats.activeConnections--; }
\* (proxy-server.js:91-94)
Cleanup ==
    /\ activeWorkers' = activeWorkers - 1
    /\ stats' = [stats EXCEPT !.activeConnections = @ - 1]

\* the response of request r emits 'finish': res.on('finish', cleanup)
\* (proxy-server.js:96)
Finish(r) ==
    /\ reqState[r] = "admitted"
    /\ reqState' = [reqState EXCEPT ![r] = "finished"]
    /\ Cleanup
    /\ UNCHANGED <<maxWorkers, polls, engineVars, httpVars, pureVars>>

ResponseFinish == \E r \in Requests : Finish(r)

\* the response of request r emits 'close': res.on('close', cleanup)
\* (proxy-server.js:97)
Close(r) ==
    /\ reqState[r] \in {"admitted", "finished"}
    /\ reqState' = [reqState EXCEPT ![r] = "closed"]
    /\ Cleanup
    /\ UNCHANGED <<maxWorkers, polls, engineVars, httpVars, pureVars>>

ResponseClose == \E r \in Requests : Close(r)

\* the response of an admitted request r ends
Ends(r) == reqState[r] = "admitted" /\ (Finish(r) \/ Close(r))

(***************************************************************************)
(* Two activations of attemptPayment at once (payer.js:264-434).  Every    *)
(* variable of the function is a parameter, a const or a let of the        *)
(* activation; payer.js keeps no variable at module level.  An activation  *)
(* runs from one await to the next without interruption, so the awaits are *)
(* the points where the two interleave.  What an await settles with, and   *)
(* what the card factory returns, comes from outside and is recorded.      *)
(***************************************************************************)
CallIds == {1, 2}
\* the retries arguments and the cards a factory returns
PairRetries == {0, 1}
GeneratedCards == {"g1"}
\* the answers of the upstream: the info of the session, which a second fetch
\* returns with the same amount or another, a create answer with an id and
\* one without, four confirm answers (complete, declined, amount mismatch,
\* neither)
InfoOfAmount(a) ==
    [lineItems |-> <<[amount |-> a, unitAmount |-> NullNum, quantity |-> NullNum]>>,
     total |-> NullNum]
PairInfos == {InfoOfAmount(5)}
PairRefetchedInfos == {InfoOfAmount(5), InfoOfAmount(7)}
PairCreateResponses ==
    { [statusCode |-> 200, hasId |-> TRUE, hasError |-> FALSE],
      [statusCode |-> 402, hasId |-> FALSE, hasError |-> TRUE] }
PairConfirmResponses ==
    { [statusCode |-> 200, data |-> [NoData EXCEPT !.status = "complete"]],
      [statusCode |-> 402, data |-> [NoData EXCEPT !.error = "card_declined"]],
      [statusCode |-> 402, data |-> [NoData EXCEPT !.error = "checkout_amount_mismatch"]],
      [statusCode |-> 200, data |-> NoData] }
\* what one await settles with: an exception, or the answer the await is for,
\* together with the card the factory returns if another iteration starts
NoAnswer ==
    [throws |-> FALSE, info |-> NoInfo,
     create |-> [statusCode |-> 0, hasId |-> FALSE, hasError |-> FALSE],
     confirm |-> [statusCode |-> 0, data |-> NoData], draw |-> "none"]
DrawsFor(st) == IF st.card = "factory" THEN GeneratedCards ELSE {"literal"}
AnswersAt(st) ==
    {[NoAnswer EXCEPT !.throws = TRUE, !.draw = d] : d \in DrawsFor(st)}
    \cup
    (CASE st.pc = "fetchInfo" ->
            {[NoAnswer EXCEPT !.info = i, !.draw = d] : i \in PairInfos, d \in DrawsFor(st)}
       [] st.pc = "refetch" ->
            {[NoAnswer EXCEPT !.info = i, !.draw = d] :
                i \in PairRefetchedInfos, d \in DrawsFor(st)}
       [] st.pc = "create" ->
            {[NoAnswer EXCEPT !.create = r, !.draw = d] :
                r \in PairCreateResponses, d \in DrawsFor(st)}
       [] OTHER ->
            {[NoAnswer EXCEPT !.confirm = r, !.draw = d] :
                r \in PairConfirmResponses, d \in DrawsFor(st)})

\* the variables of an activation before it is entered
IdleCall ==
    [pc |-> "idle", retries |-> 0, card |-> "literal", attempts |-> 0,
     lastError |-> NoError, expectedAmount |-> 0, currentCard |-> "none",
     paymentMethodId |-> 0, responseData |-> NoData, confirmStatus |-> 0,
     result |-> NoResult, sent |-> <<>>]
\* attemptPayment({checkoutUrl, card, retries}) up to its first await
\* (payer.js:264-274)
NewCall(r, c) ==
    [IdleCall EXCEPT !.pc = "fetchInfo", !.retries = r, !.card = c,
                     !.sent = <<Call("info", 0, NullNum)>>]

\* back at the loop test (payer.js:304-319, 426-433)
ContinueOf(st, att, le, draw) ==
    LET base == [st EXCEPT !.lastError = le, !.paymentMethodId = 0,
                           !.responseData = NoData, !.confirmStatus = 0]
    IN  IF LoopCond(att, st.retries)
        THEN [base EXCEPT !.attempts = att + 1, !.pc = "create", !.currentCard = draw,
                          !.sent = Append(@, Call("create", 0, NullNum))]
        ELSE [base EXCEPT !.attempts = att, !.pc = "returned",
                          !.result = CreateDetailedResponse(att, le)]
\* catch (err) { lastError = { message: err.message } }        (payer.js:421-423)
CatchOf(st, draw) ==
    ContinueOf(st, st.attempts, <<"exception", ToString(st.attempts)>>, draw)
\* payer.js:373-420 on the working response d
ClassifyOf(st, code, d, draw) ==
    IF ReturnsDeclined(d)
    THEN [st EXCEPT !.pc = "returned", !.result = DeclinedResult(st.attempts, d),
                    !.responseData = NoData]
    ELSE IF ReturnsApproved(code, d)
    THEN [st EXCEPT !.pc = "returned", !.result = ApprovedResult(st.attempts, d),
                    !.responseData = NoData]
    ELSE ContinueOf(st, st.attempts, <<"confirm_data", ToString(st.attempts)>>, draw)

\* the activation with variables st runs from the await it is suspended at,
\* which settles with a, to its next await or to its end    (payer.js:274-433)
StepCall(st, a) ==
    IF st.pc = "fetchInfo"
    THEN IF a.throws THEN [st EXCEPT !.pc = "rejected"]
         ELSE ContinueOf([st EXCEPT !.expectedAmount = ComputeExpectedAmount(a.info)],
                         0, NoError, a.draw)
    ELSE IF a.throws THEN CatchOf(st, a.draw)
    ELSE IF st.pc = "create"
    THEN IF CreateFailed(a.create)
         THEN ContinueOf(st, st.attempts,
                         <<IF a.create.hasError THEN "create_error" ELSE "create_default",
                           ToString(st.attempts)>>, a.draw)
         ELSE [st EXCEPT !.paymentMethodId = IdOf(a.create, st.attempts),
                         !.pc = "confirm",
                         !.sent = Append(@, Call("confirm", IdOf(a.create, st.attempts),
                                                 st.expectedAmount))]
    ELSE IF st.pc = "confirm"
    THEN IF IsAmountMismatch(a.confirm.data)
         THEN [st EXCEPT !.pc = "refetch", !.responseData = a.confirm.data,
                         !.confirmStatus = a.confirm.statusCode,
                         !.sent = Append(@, Call("info", 0, NullNum))]
         ELSE ClassifyOf(st, a.confirm.statusCode, a.confirm.data, a.draw)
    ELSE IF st.pc = "refetch"
    THEN LET recalculatedAmount == ComputeExpectedAmount(a.info)
         IN  IF ShouldRetryConfirm(recalculatedAmount, st.expectedAmount)
             THEN [st EXCEPT !.pc = "reconfirm",
                             !.sent = Append(@, Call("confirm", st.paymentMethodId,
                                                     recalculatedAmount))]
             ELSE ClassifyOf(st, st.confirmStatus, st.responseData, a.draw)
    ELSE ClassifyOf(st, st.confirmStatus, ObjectAssign(st.responseData, a.confirm.data),
                    a.draw)

\* mutant of Locals: attempts is one variable of the module, the one the first
\* activation counts in
LocalsWithModuleAttempts(cs, c) == [cs[c] EXCEPT !.attempts = cs[1].attempts]
\* the variables activation c reads and writes: its own parameters, consts and
\* lets (payer.js:264-302)
Locals(cs, c) == cs[c]

\* a caller calls attemptPayment while another activation may be suspended
StartCall(c) ==
    /\ activations[c].pc = "idle"
    /\ \E r \in PairRetries, k \in {"literal", "factory"}, urlOk \in BOOLEAN :
          activations' = [activations EXCEPT ![c] = IF urlOk THEN NewCall(r, k)
                                         ELSE [IdleCall EXCEPT !.pc = "rejected",
                                                               !.retries = r, !.card = k]]
    /\ UNCHANGED <<heard, amountVars, classifierVars, generatorVars, parserVars,
                   submitVars, normalizerVars, engineVars, httpVars, serverVars>>
\* the await activation c is suspended at settles and c runs to its next await
SettleCall(c) ==
    /\ activations[c].pc \in {"fetchInfo", "create", "confirm", "refetch", "reconfirm"}
    /\ \E a \in AnswersAt(activations[c]) :
          /\ activations' = [activations EXCEPT ![c] = StepCall(Locals(activations, c), a)]
          /\ heard' = [heard EXCEPT ![c] = Append(@, a)]
    /\ UNCHANGED <<amountVars, classifierVars, generatorVars, parserVars,
                   submitVars, normalizerVars, engineVars, httpVars, serverVars>>
CallStarts == \E c \in CallIds : StartCall(c)
AwaitSettles == \E c \in CallIds : SettleCall(c)
\* attemptPayment has not been called
InitPairIdle == activations = [c \in CallIds |-> IdleCall] /\ heard = [c \in CallIds |-> <<>>]

InitEngineIdle ==
    /\ route = "none" /\ retries = 0 /\ card = "literal" /\ binOk = TRUE
    /\ pc = "idle" /\ attempts = 0 /\ lastError = NoError /\ expectedAmount = 0
    /\ currentCard = "none" /\ paymentMethodId = 0 /\ responseData = NoData
    /\ confirmStatus = 0 /\ result = NoResult /\ creates = 0 /\ iterCalls = <<>>
    /\ classified = NoClassified /\ pending = 0 /\ httpStatus = 0

\* generateCardFromBin has not run: no number, no clock reading, no expiry, no CVC
InitGeneratorIdle ==
    /\ cardNumber = <<>> /\ generated = "no"
    /\ currentYear = 0 /\ currentMonth = 0
    /\ expMonth = <<>> /\ expYear = <<>> /\ cvc = <<>>

\* nothing has been given to the classifier or to the generator
InitPureIdle ==
    /\ confirmation = NoConfirmation /\ resultSuccess = FALSE /\ outcome = NoOutcome
    /\ bin = <<>> /\ InitGeneratorIdle
    /\ InitParserIdle /\ InitSubmitIdle /\ InitNormalizerIdle /\ InitPairIdle

\* the server is not configured: no API key is asked for
InitNoGate == served = NoServed /\ useApiKey = FALSE /\ apiKey = <<>>

Init ==
    /\ route = "none" /\ retries = 0 /\ card = "literal" /\ binOk = TRUE
    /\ pc = "idle" /\ attempts = 0 /\ lastError = NoError /\ expectedAmount = 0
    /\ currentCard = "none" /\ paymentMethodId = 0 /\ responseData = NoData
    /\ confirmStatus = 0 /\ result = NoResult /\ creates = 0 /\ iterCalls = <<>>
    /\ classified = NoClassified /\ pending = 0
    /\ httpStatus = 0 /\ served = NoServed /\ useApiKey = FALSE /\ apiKey = <<>>
    /\ info = NoInfo /\ amountOut = NullNum /\ InitPureIdle
    /\ maxWorkers = DefaultMaxWorkers /\ activeWorkers = 0 /\ reqState = <<>> /\ polls = 0
    /\ stats = [totalRequests |-> 0, activeConnections |-> 0]

Next ==
    \/ CallAttempt
    \/ InfoResponse
    \/ InfoRejected
    \/ CreateResponse
    \/ ConfirmResponse
    \/ RefetchResponse
    \/ ReconfirmResponse
    \/ CallFailed
    \/ FetchTimeout

Spec == Init /\ [][Next]_vars

\* The attempt engine with its timers: a pending info fetch is ended by its
\* 30 s timer if nothing else ends it.  No other call has a timer, so nothing
\* is assumed about the answers to create and confirm calls.
SpecTimed == Init /\ [][Next]_vars /\ WF_vars(FetchTimeout)

\* the server as configured by its options: useApiKey, apiKey
InitHttp ==
    /\ InitEngineIdle
    /\ served = NoServed
    /\ \E c \in ServerConfigs : useApiKey = c[1] /\ apiKey = c[2]
    /\ info = NoInfo /\ amountOut = NullNum /\ InitPureIdle
    /\ maxWorkers = DefaultMaxWorkers /\ activeWorkers = 0 /\ reqState = <<>> /\ polls = 0
    /\ stats = [totalRequests |-> 0, activeConnections |-> 0]

NextHttp ==
    \/ HandleRequest
    \/ InfoEndpointResponse
    \/ ProxyResponse
    \/ InfoResponse
    \/ InfoRejected
    \/ CreateResponse
    \/ ConfirmResponse
    \/ RefetchResponse
    \/ ReconfirmResponse
    \/ CallFailed
    \/ FetchTimeout
    \/ HttpRespond

SpecHttp == InitHttp /\ [][NextHttp]_vars

InitAmount ==
    /\ InitEngineIdle /\ InitNoGate
    /\ info \in CheckoutInfos /\ amountOut = NullNum /\ InitPureIdle
    /\ maxWorkers = DefaultMaxWorkers /\ activeWorkers = 0 /\ reqState = <<>> /\ polls = 0
    /\ stats = [totalRequests |-> 0, activeConnections |-> 0]

NextAmount == ComputeAmount

SpecAmount == InitAmount /\ [][NextAmount]_vars

\* the classifier is given any confirmation of the domain
InitClassify ==
    /\ InitEngineIdle /\ InitNoGate
    /\ info = NoInfo /\ amountOut = NullNum
    /\ confirmation \in Confirmations /\ resultSuccess \in BOOLEAN /\ outcome = NoOutcome
    /\ bin = <<>> /\ InitGeneratorIdle /\ InitParserIdle
    /\ InitSubmitIdle /\ InitNormalizerIdle /\ InitPairIdle
    /\ maxWorkers = DefaultMaxWorkers /\ activeWorkers = 0 /\ reqState = <<>> /\ polls = 0
    /\ stats = [totalRequests |-> 0, activeConnections |-> 0]

NextClassify == ClassifyConfirmation

SpecClassify == InitClassify /\ [][NextClassify]_vars

\* the generator is given any bin of the domain
InitGenerate ==
    /\ InitEngineIdle /\ InitNoGate
    /\ info = NoInfo /\ amountOut = NullNum
    /\ confirmation = NoConfirmation /\ resultSuccess = FALSE /\ outcome = NoOutcome
    /\ bin \in Bins /\ InitGeneratorIdle /\ InitParserIdle
    /\ InitSubmitIdle /\ InitNormalizerIdle /\ InitPairIdle
    /\ maxWorkers = DefaultMaxWorkers /\ activeWorkers = 0 /\ reqState = <<>> /\ polls = 0
    /\ stats = [totalRequests |-> 0, activeConnections |-> 0]

NextGenerate ==
    \/ GenerateCardFromBin
    \/ AppendRandomDigit
    \/ AppendCheckDigit
    \/ GenerateExpiry
    \/ GenerateCvc

SpecGenerate == InitGenerate /\ [][NextGenerate]_vars

\* parseCardString is given any string of the domain
InitParse ==
    /\ InitEngineIdle /\ InitNoGate
    /\ info = NoInfo /\ amountOut = NullNum
    /\ confirmation = NoConfirmation /\ resultSuccess = FALSE /\ outcome = NoOutcome
    /\ bin = <<>> /\ InitGeneratorIdle
    /\ InitSubmitIdle /\ InitNormalizerIdle /\ InitPairIdle
    /\ cardString \in CardStrings /\ parsedCard = NoCard /\ InitUrlParserIdle
    /\ maxWorkers = DefaultMaxWorkers /\ activeWorkers = 0 /\ reqState = <<>> /\ polls = 0
    /\ stats = [totalRequests |-> 0, activeConnections |-> 0]

NextParse == ParseCard

SpecParse == InitParse /\ [][NextParse]_vars

\* parseCheckoutUrl is given any argument of the domain
InitUrl ==
    /\ InitEngineIdle /\ InitNoGate
    /\ info = NoInfo /\ amountOut = NullNum
    /\ confirmation = NoConfirmation /\ resultSuccess = FALSE /\ outcome = NoOutcome
    /\ bin = <<>> /\ InitGeneratorIdle /\ InitCardParserIdle
    /\ InitSubmitIdle /\ InitNormalizerIdle /\ InitPairIdle
    /\ \E input \in UrlInputs : checkoutUrl = input.url /\ urlParts = input.parts
    /\ parsedUrl = NoParsedUrl
    /\ maxWorkers = DefaultMaxWorkers /\ activeWorkers = 0 /\ reqState = <<>> /\ polls = 0
    /\ stats = [totalRequests |-> 0, activeConnections |-> 0]

NextUrl == ParseUrl

SpecUrl == InitUrl /\ [][NextUrl]_vars

\* attemptPayment is given a card written as a string of the domain and parsed,
\* or a function that generates one from a bin of the domain
InitSubmit ==
    /\ route = "none" /\ retries = 0 /\ binOk = TRUE
    /\ pc = "idle" /\ attempts = 0 /\ lastError = NoError /\ expectedAmount = 0
    /\ currentCard = "none" /\ paymentMethodId = 0 /\ responseData = NoData
    /\ confirmStatus = 0 /\ result = NoResult /\ creates = 0 /\ iterCalls = <<>>
    /\ classified = NoClassified /\ pending = 0 /\ httpStatus = 0
    /\ InitNoGate
    /\ info = NoInfo /\ amountOut = NullNum
    /\ confirmation = NoConfirmation /\ resultSuccess = FALSE /\ outcome = NoOutcome
    /\ InitGeneratorIdle /\ InitUrlParserIdle /\ InitSubmitIdle /\ InitNormalizerIdle /\ InitPairIdle
    /\ parsedCard = NoCard
    /\ \/ card = "factory" /\ bin \in Bins /\ cardString = <<>>
       \/ card = "literal" /\ bin = <<>> /\ cardString \in CardStrings
    /\ maxWorkers = DefaultMaxWorkers /\ activeWorkers = 0 /\ reqState = <<>> /\ polls = 0
    /\ stats = [totalRequests |-> 0, activeConnections |-> 0]

NextSubmit ==
    \/ card = "factory" /\ GenerateCardFromBin
    \/ card = "factory" /\ AppendRandomDigit
    \/ card = "factory" /\ AppendCheckDigit
    \/ card = "factory" /\ GenerateExpiry
    \/ card = "factory" /\ GenerateCvc
    \/ card = "literal" /\ ParseCard
    \/ SubmitCurrentCard

SpecSubmit == InitSubmit /\ [][NextSubmit]_vars

\* the normalizer is given any invoice of the domain
InitNormalize ==
    /\ InitEngineIdle /\ InitNoGate
    /\ info = NoInfo /\ amountOut = NullNum
    /\ confirmation = NoConfirmation /\ resultSuccess = FALSE /\ outcome = NoOutcome
    /\ bin = <<>> /\ InitGeneratorIdle /\ InitParserIdle /\ InitSubmitIdle
    /\ rawInvoice \in RawInvoices /\ normalized = NoNormalized /\ InitPairIdle
    /\ maxWorkers = DefaultMaxWorkers /\ activeWorkers = 0 /\ reqState = <<>> /\ polls = 0
    /\ stats = [totalRequests |-> 0, activeConnections |-> 0]

NextNormalize == NormalizeResponse

SpecNormalize == InitNormalize /\ [][NextNormalize]_vars

\* two callers inside the process call attemptPayment
InitPair ==
    /\ InitEngineIdle /\ InitNoGate
    /\ info = NoInfo /\ amountOut = NullNum /\ InitPureIdle
    /\ maxWorkers = DefaultMaxWorkers /\ activeWorkers = 0 /\ reqState = <<>> /\ polls = 0
    /\ stats = [totalRequests |-> 0, activeConnections |-> 0]

NextPair == CallStarts \/ AwaitSettles

SpecPair == InitPair /\ [][NextPair]_vars

InitServer ==
    /\ InitEngineIdle /\ InitNoGate
    /\ info = NoInfo /\ amountOut = NullNum /\ InitPureIdle
    /\ maxWorkers \in WorkerLimits
    /\ activeWorkers = 0
    /\ reqState = [r \in Requests |-> "new"]
    /\ polls = 0
    /\ stats = [totalRequests |-> 0, activeConnections |-> 0]

NextServer ==
    \/ RequestArrives
    \/ PollTimerFires
    \/ ResponseFinish
    \/ ResponseClose

SpecServer == InitServer /\ [][NextServer]_vars

\* The admission control under the conditions of a working event loop: the
\* 100 ms timer of a waiting request fires, and the response of every admitted
\* request ends.  Nothing is assumed about the arrivals.
SpecServerFair ==
    /\ InitServer /\ [][NextServer]_vars
    /\ \A r \in Requests : WF_vars(Poll(r)) /\ WF_vars(Ends(r))

(***************************************************************************)
(* Properties of the attempt engine.                                       *)
(***************************************************************************)
\* the claims' reading of a confirm response
ShowsDecline(d) == d.pi.status = "requires_payment_method"
CarriesErrorObject(d) == d.error \notin {"absent", "null"} \/ d.pi.last_payment_error
ShowsRequiresAction(d) == d.pi.status = "requires_action" /\ d.pi.next_action
ShowsComplete(d) == d.status = "complete"
\* the last iteration ended by recording lastError (no Approved, no Declined)
LastIterationFailed == attempts > 0 /\ lastError[2] = ToString(attempts)
OpsOf(calls, op) == SelectSeq(calls, LAMBDA c : c.op = op)

\* C1: a call with maxRetries = N >= 0 issues at most N + 1 create calls and
\* runs at most N + 1 iterations, whatever the upstream answers.
C1_RetryBound ==
    (pc # "idle" /\ retries # NaN /\ retries >= 0)
        => (creates <= retries + 1 /\ attempts <= retries + 1)
\* a call that used all of its N + 1 = 3 submissions and returned
C1_Witness ==
    pc = "returned" /\ retries = MaxRetries /\ creates = retries + 1 /\ MaxRetries > 0

\* C2: once the classified (possibly corrected) confirm response shows a decline
\* or carries an error object, the call has returned Declined in that same
\* iteration: no further iteration, no further create call.
C2_DeclineIsTerminal ==
    (classified.iter > 0
       /\ (ShowsDecline(classified.data) \/ CarriesErrorObject(classified.data)))
        => /\ pc = "returned"
           /\ result.status = "declined" /\ ~result.success
           /\ result.attempts = classified.iter
           /\ attempts = classified.iter
           /\ creates = classified.iter
\* a decline returned from a factory call with retries left
C2_Witness ==
    /\ pc = "returned" /\ result.status = "declined"
    /\ card = "factory" /\ attempts <= retries
    /\ classified.iter = attempts /\ ShowsDecline(classified.data)

C4_ExhaustionIsError ==
    (pc = "returned" /\ LastIterationFailed /\ attempts = retries + 1)
        => /\ result.status \notin {"declined", "approved"}
           /\ result.error = lastError
\* the exhausted call the claim is about
C4_Witness ==
    pc = "returned" /\ LastIterationFailed /\ attempts = retries + 1 /\ retries > 0

\* C6: in one iteration the info is re-fetched at most once and only after a
\* confirm answer reporting checkout_amount_mismatch; confirm is re-issued at
\* most once, only after that re-fetch, with the same payment method id and an
\* amount that differs from the expected amount and is positive; the iteration
\* still holds one create call and attempts is not increased.
C6_MismatchRecovery ==
    LET confirms == OpsOf(iterCalls, "confirm")
        infos == OpsOf(iterCalls, "info")
    IN  /\ Len(OpsOf(iterCalls, "create")) <= 1
        /\ Len(infos) <= 1
        /\ Len(confirms) <= 2
        /\ (pc \in {"refetch", "reconfirm"})
             => /\ responseData.error = "checkout_amount_mismatch"
                /\ Len(infos) = 1
        /\ (pc = "refetch") => Len(confirms) = 1
        /\ (Len(confirms) >= 1) => confirms[1].amount = expectedAmount
        /\ (Len(confirms) = 2)
             => /\ iterCalls[3].op = "info" /\ iterCalls[4].op = "confirm"
                /\ confirms[2].pm = confirms[1].pm
                /\ confirms[2].pm = attempts
                /\ confirms[2].amount # expectedAmount
                /\ confirms[2].amount > 0
        /\ (pc \in {"create", "confirm", "refetch", "reconfirm"})
             => (creates = attempts /\ Len(OpsOf(iterCalls, "create")) = 1)
\* a corrective confirm is in flight
C6_Witness ==
    pc = "reconfirm" /\ Len(OpsOf(iterCalls, "confirm")) = 2 /\ attempts <= retries

\* C7: when the corrective confirm's response reports a complete session (or
\* requires-action with a next action) and carries no error, the attempt ends
\* Approved, not Declined.
C7_CorrectiveResponseDecides ==
    (classified.corrected
       /\ ~ShowsDecline(classified.retry) /\ ~CarriesErrorObject(classified.retry)
       /\ (ShowsRequiresAction(classified.retry) \/ ShowsComplete(classified.retry)))
        => (pc = "returned" /\ result.status = "approved")

\* C9: a literal instrument is submitted at most once, whatever maxRetries is.
C9_LiteralOnce == (card = "literal") => creates <= 1

(***************************************************************************)
(* Properties of the HTTP front-end.                                       *)
(***************************************************************************)
\* C10: every attemptPayment call started by an HTTP request with a card
\* factory receives a retries value between 0 and 10.
C10_GenRetriesClamped ==
    (route \in {"handleStripePayGen", "handleStripePayCard", "handlePaymentRequest"}
       /\ card = "factory" /\ pc \notin {"idle", "answered"})
        => (retries # NaN /\ retries >= 0 /\ retries <= RetryClamp)

\* C14: every outbound call of an attempt is bounded by a timeout, so an
\* attempt that has started always terminates, even if the upstream never
\* answers.
C14_AttemptTerminates ==
    (pc \in {"fetchInfo", "create", "confirm", "refetch", "reconfirm"})
        ~> (pc \in {"returned", "rejected"})
\* a create call is in flight
C14_Witness == pc = "create" /\ pending = 1 /\ attempts = 1

\* C15: the outbound calls of one attempt are strictly sequential: at most
\* one is in flight, and exactly one while the attempt is suspended at an
\* await; a confirm call comes after the create call of its iteration and
\* carries the id that create call returned; the create call of an iteration
\* after the first is issued once the iteration before it has ended by
\* recording its error.
C15_Sequential ==
    /\ pending \in {0, 1}
    /\ (pending = 1) = (pc \in {"fetchInfo", "create", "confirm", "refetch", "reconfirm"})
    /\ \A k \in 1..Len(iterCalls) :
          (iterCalls[k].op = "confirm")
              => /\ k > 1 /\ iterCalls[1].op = "create"
                 /\ iterCalls[k].pm # 0 /\ iterCalls[k].pm = attempts
    /\ (pc \in {"confirm", "refetch", "reconfirm"}) => paymentMethodId = attempts
    /\ (pc = "create")
          => /\ iterCalls = <<Call("create", 0, NullNum)>>
             /\ creates = attempts
             /\ (attempts > 1) => lastError[2] = ToString(attempts - 1)
\* the second iteration's confirm call is in flight
C15_Witness ==
    pc = "confirm" /\ attempts = 2 /\ pending = 1 /\ Len(iterCalls) = 2

PayHandlers == {"handleStripePayGen", "handleStripePayCard", "handlePaymentRequest"}

\* C11: a pay endpoint that answers a returned attempt answers 200 exactly when
\* the result is Approved and 402 when it is Declined or Error; a result that
\* is not Approved is never answered 200.
C11_StatusFollowsOutcome ==
    (route \in PayHandlers /\ pc = "returned" /\ httpStatus # 0)
        => /\ (httpStatus = 200) = (result.status = "approved" /\ result.success)
           /\ (result.status # "approved") => httpStatus = 402
\* pay/gen answered 402 for an attempt that used up its retries
C11_Witness ==
    /\ route = "handleStripePayGen" /\ pc = "returned" /\ httpStatus = 402
    /\ LastIterationFailed /\ retries > 0 /\ attempts = retries + 1

\* C12: a request whose checkout URL, card spec or body is malformed and that
\* reached its handler is answered 400, and no create call was issued for it.
C12_MalformedIs400 ==
    (served.malformed \in {"url", "card", "body"}
       /\ route # "handleRequest" /\ httpStatus # 0)
        => (httpStatus = 400 /\ creates = 0 /\ attempts = 0)
\* the info endpoint answers 400 for a checkout URL without session id or key
C12_Witness ==
    /\ served.path = "info" /\ served.malformed = "url"
    /\ route = "handleStripeCheckoutInfo" /\ httpStatus = 400

\* C13: with API-key mode enabled, a request whose X-API-Key header is missing
\* or differs from the configured key is answered 401 by handleRequest itself:
\* it reaches no route handler and no outbound call is issued for it.
C13_KeyGate ==
    (useApiKey /\ served.path # "none"
       /\ (served.key = NoParam \/ served.key # apiKey))
        => /\ route = "handleRequest" /\ pc = "answered" /\ httpStatus = 401
           /\ creates = 0 /\ pending = 0 /\ iterCalls = <<>>
\* a pay/gen request with a wrong key is turned away
C13_Witness ==
    /\ useApiKey /\ apiKey = <<"k", "1">> /\ served.key = <<"k", "2">>
    /\ served.path = "gen" /\ httpStatus = 401

(***************************************************************************)
(* Properties of the amount computation and of the admission control.      *)
(***************************************************************************)
RECURSIVE SumOfAmounts(_)
\* the sum of the amount fields of a list of line items
SumOfAmounts(items) ==
    IF items = <<>> THEN 0 ELSE Head(items).amount + SumOfAmounts(Tail(items))
AllAmountsPresent(items) == \A k \in 1..Len(items) : items[k].amount # NullNum

\* C8: the expected amount is the sum of the line-item amounts when there is a
\* line item, and totals.total when there is none (stated for infos whose line
\* items all carry an amount).
C8_AmountIsSumOfItemAmounts ==
    (amountOut # NullNum /\ AllAmountsPresent(info.lineItems))
        => amountOut = (IF Len(info.lineItems) > 0
                        THEN SumOfAmounts(info.lineItems)
                        ELSE OrZero(info.total))
\* the scenario of the claim: amounts 5 and 7 and no totals.total give 12
C8_Witness ==
    /\ Len(info.lineItems) = 2 /\ info.total = NullNum
    /\ info.lineItems[1].amount = 5 /\ info.lineItems[2].amount = 7
    /\ amountOut = 12

\* the requests admitted by handleRequest whose response has not finished
InFlight == { r \in DOMAIN reqState : reqState[r] = "admitted" }

\* C5: at every moment at most maxWorkers admitted requests are unfinished.
C5_AtMostMaxWorkersInFlight == Cardinality(InFlight) <= maxWorkers
\* the limit is reached and a further request waits
C5_Witness ==
    /\ Cardinality(InFlight) = maxWorkers
    /\ \E r \in DOMAIN reqState : reqState[r] = "waiting"

\* C16: a request that finds the workers at the limit is neither rejected nor
\* dropped: while it waits it only goes on waiting or is admitted, and it is
\* eventually admitted and its response ends.
C16_WaitingIsServed ==
    /\ [][\A r \in Requests :
            (reqState[r] = "waiting") => (reqState'[r] \in {"waiting", "admitted"})]_vars
    /\ \A r \in Requests :
          (reqState[r] = "waiting") ~> (reqState[r] \in {"finished", "closed"})
\* requests were polled while the queue was full, and every response has ended
C16_Witness ==
    /\ polls > 0 /\ maxWorkers = 1
    /\ \A r \in Requests : reqState[r] \in {"finished", "closed"}

(***************************************************************************)
(* Properties of the response classifier.                                  *)
(***************************************************************************)
OutcomeKnown == outcome # NoOutcome

\* C17: for every confirmation object, whatever the types of the values in
\* status, payment_intent, error and charges, classification returns one
\* outcome and does not throw.
C17_ClassifierTotal ==
    OutcomeKnown => outcome.branch \in {"declined", "requires_action", "approved", "none"}

\* a charges list whose first item is null has been classified
C17_Witness ==
    /\ OutcomeKnown
    /\ confirmation.charges.data = "null item"

\* a decline signal is carried by the confirmation
DeclineSignal ==
    \/ confirmation.status = "declined"
    \/ /\ confirmation.payment_intent.kind = "object"
       /\ \/ confirmation.payment_intent.status \in {"requires_payment_method", "declined"}
          \/ confirmation.payment_intent.last_payment_error # "absent"
    \/ /\ confirmation.error.kind = "object"
       /\ \/ confirmation.error.type = "card_error"
          \/ confirmation.error.code = "card_declined"
          \/ confirmation.error.decline_code # "absent"
          \/ confirmation.error.message = "decline text"
    \/ /\ confirmation.charges.data = "charge"
       /\ confirmation.charges.status = "failed" \/ confirmation.charges.declined
\* the payment intent asks for an action
ActionSignal ==
    /\ confirmation.payment_intent.kind = "object"
    /\ confirmation.payment_intent.status = "requires_action"
    /\ confirmation.payment_intent.next_action
\* an explicit approval signal is carried by the confirmation
ApprovalSignal ==
    \/ confirmation.status = "complete"
    \/ /\ confirmation.payment_intent.kind = "object"
       /\ confirmation.payment_intent.status = "processing"
    \/ /\ confirmation.charges.data = "charge"
       /\ confirmation.charges.status = "succeeded" /\ confirmation.charges.paid
Returned == OutcomeKnown /\ outcome.branch # "throws"

\* C18: whenever classification returns, the first match wins: a confirmation
\* with a decline signal is declined whatever else it carries; without one, a
\* payment intent with status requires_action and a next_action gives
\* requires_action whatever approval signals there are; an approved
\* confirmation has neither.
C18_FirstMatchWins ==
    Returned =>
        /\ DeclineSignal => outcome.branch = "declined"
        /\ ~DeclineSignal /\ ActionSignal => outcome.branch = "requires_action"
        /\ outcome.branch = "approved" => ~DeclineSignal /\ ~ActionSignal

\* a confirmation with a decline signal, a requires-action signal and an
\* approval signal was declined
C18_Witness ==
    /\ DeclineSignal /\ ActionSignal /\ ApprovalSignal
    /\ outcome.branch = "declined"

\* the confirmation has an error field (a truthy value under the key error)
ErrorPresent == confirmation.error.kind \in {"scalar", "object"}

\* C19: whenever classification returns, a confirmation with no decline
\* signal, no requires-action signal, no explicit approval signal and no error
\* field is approved, and a confirmation with an error field and no explicit
\* approval signal is not approved.
C19_DefaultApproval ==
    Returned =>
        /\ (/\ ~DeclineSignal /\ ~ActionSignal /\ ~confirmation.requires3DS
            /\ ~ApprovalSignal /\ ~ErrorPresent)
           => outcome.branch = "approved"
        /\ ErrorPresent /\ ~ApprovalSignal => outcome.branch # "approved"

\* both cases: a confirmation without any signal or error was approved by
\* default; one that only holds an error that is no decline was left undecided
C19_Witness ==
    /\ ~DeclineSignal /\ ~ActionSignal /\ ~confirmation.requires3DS
    /\ ~ApprovalSignal /\ ~ErrorPresent
    /\ confirmation.status = "open"
    /\ outcome.branch = "approved"
C19_WitnessError ==
    /\ ErrorPresent /\ ~DeclineSignal /\ ~ApprovalSignal /\ ~ActionSignal
    /\ ~confirmation.requires3DS
    /\ confirmation.error.code = "rate_limit"
    /\ outcome.branch = "none"

(***************************************************************************)
(* Properties of the card generator.                                       *)
(***************************************************************************)
\* the digit sum of twice a digit
TwiceDigitSum(d) == ((2 * d) \div 10) + ((2 * d) % 10)
\* the weighted digit sum of the positions 1..k of a number counted from the
\* right: every second digit, starting with the one left of the last, is
\* replaced by the digit sum of its double
RECURSIVE WeightedSum(_, _)
WeightedSum(number, k) ==
    IF k = 0 THEN 0
    ELSE LET d == number[Len(number) + 1 - k]
         IN  (IF k % 2 = 0 THEN TwiceDigitSum(d) ELSE d) + WeightedSum(number, k - 1)

\* C20: for every prefix of at least 6 digits and every fill, the number
\* generateCardFromBin returns has a weighted digit sum divisible by 10 and
\* starts with the prefix, and the re-validation after the check digit never
\* fails.
C20_LuhnInvariant ==
    /\ generated # "threw luhn"
    /\ generated = "returned" =>
          /\ WeightedSum(cardNumber, Len(cardNumber)) % 10 = 0
          /\ StartsWith(cardNumber, Clean(bin))
          /\ ValidateLuhn(cardNumber)

\* a 16-digit number was returned for a 6-digit prefix, with nine drawn digits
\* among which one doubles past 9
C20_Witness ==
    /\ generated = "returned"
    /\ Len(Clean(bin)) = 6 /\ Len(cardNumber) = 16
    /\ \E i \in 7..15 : cardNumber[i] = 9

\* the number a string of two digits denotes
TwoDigits(str) == 10 * DigitValue(str[1]) + DigitValue(str[2])

\* C21: every returned instrument has a two-character month 01..12 and a
\* two-character year, and the date they denote (year 20yy) is strictly later
\* than the (year, month) read from the clock.
C21_ExpiryInFuture ==
    generated = "returned" =>
        /\ Len(expMonth) = 2 /\ Len(expYear) = 2
        /\ TwoDigits(expMonth) \in 1..12
        /\ \/ 2000 + TwoDigits(expYear) > currentYear
           \/ /\ 2000 + TwoDigits(expYear) = currentYear
              /\ TwoDigits(expMonth) > currentMonth

\* an instrument expiring in January of the next year was returned in November
C21_Witness ==
    /\ generated = "returned"
    /\ currentYear = 2026 /\ currentMonth = 11
    /\ expMonth = <<"0", "1">> /\ expYear = <<"2", "7">>

\* the prefix begins with 34 or 37
AmexPrefix ==
    LET digits == SelectSeq(bin, LAMBDA c : c # Dash)
    IN  digits[1] = 3 /\ digits[2] \in {4, 7}

\* C22: the security code of every returned instrument is made of digits, and
\* it has 4 of them if the prefix begins with 34 or 37 (target length 15) and
\* 3 otherwise.
C22_CvcLength ==
    generated = "returned" =>
        /\ \A i \in 1..Len(cvc) : IsDigit(cvc[i])
        /\ Len(cvc) = IF AmexPrefix THEN 4 ELSE 3

\* the largest 4-digit code was returned for a prefix 37...
C22_Witness ==
    /\ generated = "returned"
    /\ AmexPrefix
    /\ cvc = <<"9", "9", "9", "9">>

\* the diners prefix
DinersPrefix ==
    LET digits == SelectSeq(bin, LAMBDA c : c # Dash)
    IN  digits[1] = 3 /\ digits[2] \in {6, 8}

\* C23: the number of every returned instrument begins with the digits of the
\* prefix and has 15 digits for a prefix 34/37, 14 for 36/38, 16 otherwise.
C23_TargetLength ==
    generated = "returned" =>
        /\ Len(cardNumber) = IF AmexPrefix THEN 15 ELSE IF DinersPrefix THEN 14 ELSE 16
        /\ \A i \in 1..Len(SelectSeq(bin, LAMBDA c : c # Dash)) :
              cardNumber[i] = SelectSeq(bin, LAMBDA c : c # Dash)[i]

\* a number was returned for the prefix of 16 digits
C23_Witness ==
    /\ generated = "returned"
    /\ Len(bin) = 16

\* the part of C23 that holds: a prefix shorter than the target length gives a
\* number of exactly the target length
C23_TargetLengthOfShorterPrefix ==
    generated = "returned" /\ Len(bin) < 14 =>
        Len(cardNumber) = IF AmexPrefix THEN 15 ELSE IF DinersPrefix THEN 14 ELSE 16

(***************************************************************************)
(* Properties of parseCardString.                                          *)
(***************************************************************************)
\* the number of '|' characters of the argument
Bars == Len(SelectSeq(cardString, LAMBDA c : c = "|"))

\* C24: parseCardString fails for every string that does not have exactly 4
\* fields separated by '|', fewer or more, and returns only for exactly 4.
C24_ExactlyFourFields ==
    parsedCard # NoCard =>
        (parsedCard.ok = "parsed" <=> Bars = 3)

\* a string of five fields was given to parseCardString
C24_Witness ==
    /\ parsedCard # NoCard
    /\ Bars = 4

\* the part of C24 that holds: fewer than 4 fields always fail
C24_FewerThanFourFail ==
    parsedCard # NoCard /\ Bars < 3 => parsedCard.ok = "threw"

\* the fields of the argument as written, and without the blanks around them
RawFields == Split(cardString, <<>>)
Fields == [i \in 1..Len(RawFields) |-> Trim(RawFields[i])]
AllDigits(str) == \A i \in 1..Len(str) : IsDigit(str[i])
\* the value of a string of digits
RECURSIVE Decimal(_)
Decimal(str) ==
    IF str = <<>> THEN 0
    ELSE 10 * Decimal(SubSeq(str, 1, Len(str) - 1)) + DigitValue(str[Len(str)])
\* the month field is a month: one or two digits that denote 1..12
MonthWritten ==
    /\ Len(Fields[2]) \in {1, 2} /\ AllDigits(Fields[2])
    /\ Decimal(Fields[2]) \in 1..12
\* the year field is a year of two or of four digits
YearWritten == Len(Fields[3]) \in {2, 4} /\ AllDigits(Fields[3])
Parsed == parsedCard.ok = "parsed"
\* the returned month and year are the normal forms of the fields
MonthAndYearNormal ==
    /\ MonthWritten =>
          /\ Len(parsedCard.expMonth) = 2 /\ AllDigits(parsedCard.expMonth)
          /\ Decimal(parsedCard.expMonth) = Decimal(Fields[2])
    /\ YearWritten =>
          /\ Len(parsedCard.expYear) = 2
          /\ parsedCard.expYear = <<Fields[3][Len(Fields[3]) - 1], Fields[3][Len(Fields[3])]>>
\* parsing the returned card, written as a string again, returns the same card
ParsedAgainIsSame ==
    ParseCardString(Join(<<parsedCard.cardNumber, parsedCard.expMonth,
                           parsedCard.expYear, parsedCard.cvc>>)) = parsedCard

\* C25 as stated: the month and the year of a parsed card are normalized, the
\* number and the security code are the fields as written, and parsing the
\* result again changes nothing.
C25_NormalizesAndKeepsVerbatim ==
    Parsed =>
        /\ MonthAndYearNormal
        /\ parsedCard.cardNumber = RawFields[1] /\ parsedCard.cvc = RawFields[4]
        /\ ParsedAgainIsSame

\* C25, amended: the month and the year of a parsed card are normalized, the
\* number is the first field without its blanks, the security code is the
\* fourth field without the blanks around it, and parsing the result again
\* changes nothing.
C25_NormalizesAndStripsBlanks ==
    Parsed =>
        /\ MonthAndYearNormal
        /\ parsedCard.cardNumber = SelectSeq(RawFields[1], LAMBDA c : c # " ")
        /\ parsedCard.cvc = Fields[4]
        /\ ParsedAgainIsSame

\* the scenario 4242424242424242|5|2030|1234 gave month 05, year 30 and kept
\* the number and the code
C25_Witness ==
    /\ Parsed
    /\ Fields[2] = <<"5">> /\ Fields[3] = <<"2", "0", "3", "0">>
    /\ parsedCard.expMonth = <<"0", "5">> /\ parsedCard.expYear = <<"3", "0">>
    /\ parsedCard.cardNumber = RawFields[1] /\ Len(parsedCard.cardNumber) = 16
    /\ parsedCard.cvc = <<"1", "2", "3", "4">>

(***************************************************************************)
(* Properties of parseCheckoutUrl.                                         *)
(***************************************************************************)
UrlParsed == parsedUrl # NoParsedUrl
\* decodeURIComponent fails on the argument, which holds a fragment
FragmentUndecodable ==
    /\ checkoutUrl.kind = "string"
    /\ \E i \in 1..Len(checkoutUrl.text) : checkoutUrl.text[i] = 35
    /\ \E i \in 1..Len(checkoutUrl.text) :
          /\ checkoutUrl.text[i] = 37
          /\ \A j \in 1..(i - 1) : checkoutUrl.text[j] # 37
          /\ \/ i + 2 > Len(checkoutUrl.text)
             \/ HexValue(checkoutUrl.text[i + 1]) \notin 0..7
             \/ HexValue(checkoutUrl.text[i + 2]) < 0

\* C26: parseCheckoutUrl returns for every argument; a field that is not
\* written in the argument is null, and the session id written in an argument
\* whose fragment cannot be decoded is returned.
C26_NeverThrows ==
    UrlParsed =>
        /\ parsedUrl.done = "returned"
        /\ urlParts.sessionId = NullStr => parsedUrl.sessionId = NullStr
        /\ urlParts.publicKey = NullStr => parsedUrl.publicKey = NullStr
        /\ urlParts.site = NullStr => parsedUrl.site = NullStr
        /\ FragmentUndecodable => parsedUrl.sessionId = urlParts.sessionId

\* an argument with a session id and the fragment %zz was parsed
C26_Witness ==
    /\ UrlParsed
    /\ FragmentUndecodable
    /\ urlParts.sessionId # NullStr
    /\ parsedUrl.sessionId = urlParts.sessionId /\ parsedUrl.publicKey = NullStr

\* C27: a URL built from a session id and a payload with a publishable key, by
\* XOR with the key 5, base64 and percent-encoding, is parsed back to the same
\* session id and key (and site, when the payload has one).
C27_RoundTrip ==
    UrlParsed /\ urlParts.built =>
        /\ parsedUrl.sessionId = urlParts.sessionId
        /\ parsedUrl.publicKey = urlParts.publicKey
        /\ parsedUrl.site = urlParts.site

\* a built URL whose fragment has a percent escape was parsed back, the key
\* ending with the character z, which the XOR turns into the byte 127
C27_Witness ==
    /\ UrlParsed /\ urlParts.built
    /\ parsedUrl.publicKey = urlParts.publicKey
    /\ urlParts.publicKey[Len(urlParts.publicKey)] = 122
    /\ \E i \in 1..Len(checkoutUrl.text) : checkoutUrl.text[i] = 37

\* the operations of the outbound calls of the current iteration, in order
IterOps == [k \in 1..Len(iterCalls) |-> iterCalls[k].op]
\* this step ends the current loop iteration: the next one starts, or the call
\* returns or rejects
IterationEnds ==
    /\ pc \in {"create", "confirm", "refetch", "reconfirm"}
    /\ attempts' # attempts \/ pc' \in {"returned", "rejected"}

\* C28 as stated: when an iteration ends it has made one create and one
\* confirm call, and after an amount mismatch one info fetch and one more
\* confirm call in addition; nothing else.
C28_TwoCallsPerIteration ==
    [][IterationEnds =>
          \/ IterOps = <<"create", "confirm">>
          \/ /\ IterOps = <<"create", "confirm", "info", "confirm">>
             /\ responseData.error = "checkout_amount_mismatch"]_vars

\* C28, amended: the calls of an iteration are, in this order, one create; one
\* confirm unless the create call failed; one info fetch exactly when the
\* confirm reported an amount mismatch; one more confirm unless that fetch
\* failed or gave no positive amount other than the expected one.
C28_CallsOfAnIteration ==
    [][IterationEnds =>
          /\ pc = "create" => IterOps = <<"create">>
          /\ pc = "confirm" =>
                /\ IterOps = <<"create", "confirm">>
                /\ paymentMethodId # 0
          /\ pc = "refetch" =>
                /\ IterOps = <<"create", "confirm", "info">>
                /\ responseData.error = "checkout_amount_mismatch"
          /\ pc = "reconfirm" =>
                /\ IterOps = <<"create", "confirm", "info", "confirm">>
                /\ responseData.error = "checkout_amount_mismatch"
                /\ iterCalls[4].amount # expectedAmount /\ iterCalls[4].amount > 0]_vars

\* an attempt returned from an iteration that made a create call, a confirm
\* call and an info fetch, and no second confirm call
C28_Witness ==
    /\ pc = "returned"
    /\ IterOps = <<"create", "confirm", "info">>

\* a card has been handed to createPaymentMethod
Submitted == submitted # NoInstrument
\* the Luhn check of a number written in digits
PassesLuhn(number) ==
    /\ number # <<>> /\ AllDigits(number)
    /\ ValidateLuhn([k \in 1..Len(number) |-> DigitValue(number[k])])
\* the PaymentInstrument invariant for a card and the clock of the attempt
InstrumentValid(c) ==
    /\ PassesLuhn(c.cardNumber)
    /\ Len(c.expMonth) = 2 /\ AllDigits(c.expMonth) /\ TwoDigits(c.expMonth) \in 1..12
    /\ Len(c.expYear) = 2 /\ AllDigits(c.expYear)
    /\ \/ 2000 + TwoDigits(c.expYear) > c.year
       \/ /\ 2000 + TwoDigits(c.expYear) = c.year
          /\ TwoDigits(c.expMonth) >= c.month

\* C29: every card handed to createPaymentMethod, generated or parsed from a
\* string, has a number that passes the Luhn check, a month in 01..12 and an
\* expiry that is not before the month of the attempt.
C29_SubmittedInstrumentValid == Submitted => InstrumentValid(submitted)

\* C29 for generated cards alone: every generated card handed to
\* createPaymentMethod satisfies the invariant.
C29_GeneratedInstrumentValid ==
    Submitted /\ submitted.source = "generated" => InstrumentValid(submitted)

\* a card parsed from a string was handed over with a number that fails the
\* Luhn check, and another with month 13
C29_Witness ==
    /\ Submitted /\ submitted.source = "literal"
    /\ ~PassesLuhn(submitted.cardNumber) \/ submitted.expMonth = <<"1", "3">>

\* a card parsed from a string that satisfies the invariant was handed over
C29_WitnessValidLiteral ==
    /\ Submitted /\ submitted.source = "literal"
    /\ InstrumentValid(submitted)

\* the sum of the amounts of the line items of the returned CheckoutInfo
SumOfLineItems == SumOfAmounts(normalized.lineItems)
\* the upstream invoice's total is the sum of all its lines
TotalIsSumOfLines ==
    rawInvoice.kind = "invoice" /\ rawInvoice.total = SumOfLines(rawInvoice.lines)

\* C30: a returned CheckoutInfo with at least one line item, made from an
\* invoice whose total is the sum of all its lines, has totals.total equal to
\* the sum of its line-item amounts, whatever the number of lines.
C30_TotalIsSumOfLineItems ==
    normalized.done /\ normalized.lineItems # <<>> /\ TotalIsSumOfLines
        => normalized.totals.total = SumOfLineItems

\* C30 for invoices within the cap: the same, when the invoice has at most
\* MAX_LINE_ITEMS lines.
C30_TotalOfUncappedInvoice ==
    (/\ normalized.done /\ normalized.lineItems # <<>> /\ TotalIsSumOfLines
     /\ Len(rawInvoice.lines) <= MAX_LINE_ITEMS)
        => normalized.totals.total = SumOfLineItems

\* an invoice of eleven lines whose total is their sum was normalized to ten
\* line items
C30_Witness ==
    /\ normalized.done /\ TotalIsSumOfLines
    /\ Len(rawInvoice.lines) = MAX_LINE_ITEMS + 1
    /\ Len(normalized.lineItems) = MAX_LINE_ITEMS

\* this step classifies the working response of a confirm call (payer.js:373-420)
ClassifiesResponse == classified' # classified /\ classified' # NoClassified
\* what the detectors say of a response, in the order createDetailedResponse
\* consults them
Verdict(c) ==
    IF DetectCardDecline(c) = "true" THEN "Decline"
    ELSE IF DetectThreeDSRequired(c) THEN "RequiresAction"
    ELSE IF DetectCardApproval(c) = "true" THEN "Approved"
    ELSE "None"
\* the step returns the declined result of payer.js:387-399
EngineDeclines == pc' = "returned" /\ ~result'.success /\ result'.error[1] = "decline"
\* the step returns the approved result of payer.js:403-417
EngineApproves == pc' = "returned" /\ result'.success

\* C31: on every confirm response it classifies, attemptPayment returns the
\* declined result exactly when detectCardDecline says decline, and the
\* approved result exactly when the detectors say requires-action or approved
\* (so it goes on to retry after neither).
C31_EngineAgreesWithClassifier ==
    [][ClassifiesResponse =>
          LET v == Verdict(AsConfirmation(classified'.data))
          IN  /\ EngineDeclines <=> v = "Decline"
              /\ EngineApproves <=> v \in {"RequiresAction", "Approved"}]_vars

\* one direction of C31: a response the engine approves is one the detectors
\* call requires-action or approved, and a response detectCardDecline calls a
\* decline is one the engine declines.
C31_EngineApprovalIsClassifierApproval ==
    [][ClassifiesResponse =>
          LET v == Verdict(AsConfirmation(classified'.data))
          IN  /\ EngineApproves => v \in {"RequiresAction", "Approved"}
              /\ v = "Decline" => EngineDeclines]_vars

\* the engine went on to the next iteration after a response with status 200
\* that the detectors call approved
C31_Witness ==
    /\ pc = "create" /\ classified # NoClassified
    /\ classified.statusCode = 200
    /\ Verdict(AsConfirmation(classified.data)) = "Approved"

\* the engine returned the declined result for a response detectCardDecline
\* does not call a decline
C31_WitnessDecline ==
    /\ pc = "returned" /\ ~result.success /\ result.error[1] = "decline"
    /\ classified # NoClassified
    /\ Verdict(AsConfirmation(classified.data)) # "Decline"

\* an attemptPayment call started by a pay route has returned a result
HttpCallReturned == route \in PayHandlers /\ pc = "returned"

\* C32: in every result returned to a pay route, attempts is the number of
\* create calls the call issued and lies in 1..retries + 1, whatever retries
\* value the route passed.
C32_AttemptsCountsCreates ==
    HttpCallReturned =>
        /\ result.attempts = creates
        /\ retries # NaN /\ 1 <= result.attempts /\ result.attempts <= retries + 1

\* C32 for a retries value that is a number and not negative: the same.
C32_AttemptsCountsCreatesFromZero ==
    (HttpCallReturned /\ retries # NaN /\ retries >= 0) =>
        /\ result.attempts = creates
        /\ 1 <= result.attempts /\ result.attempts <= retries + 1

\* a pay route passed a negative retries value or NaN and the call returned a
\* result with attempts 1 without having issued a create call
C32_Witness ==
    /\ HttpCallReturned /\ (retries = NaN \/ retries < 0)
    /\ result.attempts = 1 /\ creates = 0

\* the create call of the iteration was answered and the answer was a failure:
\* the step leaves the await of the create call without issuing a confirm call
\* and without an exception
CreateFailedStep ==
    pc = "create" /\ pc' # "confirm" /\ lastError'[1] # "exception"
\* lastError = pmResponse.data.error || { message: 'Failed to create payment method' }
CreateErrors(att) ==
    { <<"create_error", ToString(att)>>, <<"create_default", ToString(att)>> }

\* C33: when the create call of an iteration is answered with a failure, the
\* failure is recorded as lastError, the iteration has issued no confirm call,
\* and the next iteration runs (with its create call) exactly when attempts <=
\* retries; otherwise the loop ends and the result returned is the one of the
\* loop's exit, carrying that lastError.  A confirm call is issued from the
\* await of the create call only with the id its answer holds.
C33_CreateFailureAdvances ==
    [][/\ CreateFailedStep =>
          /\ lastError' \in CreateErrors(attempts)
          /\ IterOps = <<"create">>
          /\ (attempts <= retries) =>
                /\ pc' = "create" /\ attempts' = attempts + 1 /\ creates' = creates + 1
                /\ result' = NoResult
          /\ (attempts > retries) =>
                /\ pc' = "returned" /\ attempts' = attempts /\ creates' = creates
                /\ ~result'.success /\ result'.error = lastError'
       /\ (pc = "create" /\ pc' = "confirm") =>
             /\ paymentMethodId' # 0
             /\ iterCalls' = Append(iterCalls, Call("confirm", paymentMethodId', expectedAmount))
      ]_vars

\* the second iteration runs after the create call of the first one failed
C33_Witness ==
    /\ pc = "create" /\ attempts = 2 /\ creates = 2
    /\ lastError \in CreateErrors(1)

\* the call returned after the create call of its last iteration failed
C33_WitnessExhausted ==
    /\ pc = "returned" /\ attempts = retries + 1
    /\ lastError \in CreateErrors(attempts) /\ result.error = lastError

\* the awaits inside the try block of the loop body
LoopAwaits == {"create", "confirm", "refetch", "reconfirm"}
\* this step is the catch clause taking an exception of the current iteration
CatchStep == pc \in LoopAwaits /\ lastError' = <<"exception", ToString(attempts)>>

\* C34: no exception raised in an iteration of the loop leaves attemptPayment:
\* a call that rejects has rejected before its first iteration.
C34_NoExceptionEscapes == (pc = "rejected") => attempts = 0

\* C34 for the awaited calls: an exception of the create call, a confirm call
\* or the corrective fetch is recorded as lastError of the iteration and the
\* loop goes on as after any failed iteration: the next iteration runs when
\* attempts <= retries, otherwise the exit result carries that lastError.
C34_AwaitedExceptionsCaught ==
    [][CatchStep =>
          /\ pc' # "rejected"
          /\ (attempts <= retries) => (pc' = "create" /\ attempts' = attempts + 1)
          /\ (attempts > retries) =>
                (pc' = "returned" /\ ~result'.success /\ result'.error = lastError')]_vars

\* the card factory threw in the first iteration of a call started by a route
\* and the call rejected
C34_Witness ==
    /\ pc = "rejected" /\ attempts = 1 /\ creates = 0
    /\ card = "factory" /\ ~binOk /\ route \in PayHandlers

\* an exception of a confirm call was caught and the next iteration runs
C34_WitnessCaught ==
    /\ pc = "create" /\ attempts = 2
    /\ lastError = <<"exception", "1">> /\ route \in PayHandlers

\* C35: activeWorkers is the number of admitted requests whose response has
\* not finished; in particular it is never negative, and it is 0 when no
\* admitted request is unfinished.
C35_WorkersCountUnfinished ==
    /\ activeWorkers = Cardinality(InFlight)
    /\ activeWorkers >= 0

\* every response has ended, each with 'finish' and then 'close', and the
\* counter is below zero
C35_Witness ==
    /\ \A r \in DOMAIN reqState : reqState[r] = "closed"
    /\ reqState # <<>>
    /\ activeWorkers < 0

\* the inbound requests the HTTP server has handed to handleRequest
Arrived == { r \in DOMAIN reqState : reqState[r] # "new" }

\* C36: stats.totalRequests is the number of inbound requests received so far,
\* polled again or not: it grows by one per request and never decreases.
C36_TotalRequestsCountsRequests ==
    stats.totalRequests = Cardinality(Arrived)

\* the part of C36 on monotonicity: stats.totalRequests never decreases.
C36_TotalRequestsNeverDecreases ==
    [][stats'.totalRequests >= stats.totalRequests]_vars

\* a request waited, its timer called handleRequest again, and the counter
\* is above the number of requests received
C36_Witness ==
    /\ polls > 0
    /\ stats.totalRequests > Cardinality(Arrived)

\* the result carries the decline reason built at payer.js:391-396: code,
\* message, type and decline_code, each with its default
HasDeclineReason(res) == res.error[1] = "decline"
\* the result carries the payment intent of a verification challenge
HasChallenge(res) == res.paymentIntent = "populated"

\* C37: in every returned result the decline reason is present exactly when
\* the status is declined, the verification challenge only when the response
\* classified was requires-action, and an approved result carries no error.
C37_ReasonIffDeclined ==
    (pc = "returned") =>
        /\ HasDeclineReason(result) <=> (result.status = "declined")
        /\ HasChallenge(result) => Requires3DS(classified.data)
        /\ (result.status = "approved") => result.error = NoError

\* C37 but for the result of the loop's exit: a declined result without a
\* decline reason is the one createDetailedResponse makes of lastError when
\* the iterations are used up; every other result is as C37 says.
C37_ReasonUnlessExhausted ==
    (pc = "returned") =>
        /\ HasDeclineReason(result) => (result.status = "declined")
        /\ (result.status = "declined" /\ ~HasDeclineReason(result))
              => result = CreateDetailedResponse(attempts, lastError)
        /\ HasChallenge(result) => Requires3DS(classified.data)
        /\ (result.status = "approved") => result.error = NoError

\* a call returned status declined with the error of a failed create call,
\* which is no decline reason
C37_Witness ==
    /\ pc = "returned" /\ result.status = "declined"
    /\ ~HasDeclineReason(result) /\ result.error[1] = "create_default"

\* a call returned a decline whose reason holds the default code
C37_WitnessDefaults ==
    /\ pc = "returned" /\ result.status = "declined"
    /\ HasDeclineReason(result) /\ result.error[2] = "card_declined"
    /\ ~Truthy(classified.data.error)

\* the activation that hears the answers as, one after the other, with no
\* other activation in the process
RECURSIVE Replay(_, _)
Replay(st, as) == IF as = <<>> THEN st ELSE Replay(StepCall(st, Head(as)), Tail(as))
\* activation c was entered and reached its first await
Entered(c) == activations[c].sent # <<>>
Settled(c) == Entered(c) /\ activations[c].pc \in {"returned", "rejected"}
AloneWithSameAnswers(c) ==
    Replay(NewCall(activations[c].retries, activations[c].card), heard[c])
C38_WitnessSuspended ==
    /\ activations[1].pc = "confirm" /\ activations[1].attempts = 2
    /\ activations[2].pc = "confirm" /\ activations[2].attempts = 1
    /\ Len(heard[1]) > Len(heard[2])

====
